---- MODULE Spec2Model ----
(***************************************************************************)
(* A model of the price-extraction and currency-normalisation pipeline of  *)
(* dsp_scrapers (apple_music_scraper.py, spotify_scraper.py).              *)
(*                                                                         *)
(* Texts are sequences of characters.  A character is a one-character      *)
(* string; a character outside ASCII is written "uXXXX", the hexadecimal   *)
(* code point (u20AC is the euro sign, u00A5 the yen sign).                *)
(*                                                                         *)
(* Regular expressions are values: records interpreted by Match, which     *)
(* yields the end positions of the matches that start at one position, in  *)
(* the order Python's backtracking matcher tries them.  A (?i) pattern is  *)
(* written in lower case and applied to the lower-cased text.              *)
(***************************************************************************)
EXTENDS Integers, Sequences, FiniteSets, TLC

(***************************************************************************)
(* Characters                                                              *)
(***************************************************************************)
Digits == {"0", "1", "2", "3", "4", "5", "6", "7", "8", "9"}

UpperLetters ==
    {"A", "B", "C", "D", "E", "F", "G", "H", "I", "J", "K", "L", "M",
     "N", "O", "P", "Q", "R", "S", "T", "U", "V", "W", "X", "Y", "Z"}

LowerLetters ==
    {"a", "b", "c", "d", "e", "f", "g", "h", "i", "j", "k", "l", "m",
     "n", "o", "p", "q", "r", "s", "t", "u", "v", "w", "x", "y", "z"}

\* Letters outside ASCII that the patterns name (e-acute, e-grave,
\* e-circumflex, o-acute, i-acute, dotless i, l-stroke, c-caron), and the
\* CJK, Hangul, Thai and Cyrillic letters of the keyword and symbol lists: all are word characters for \b (the Thai
\* marks u0E37 and u0E48 are not).  lower() and upper() leave them unchanged,
\* which no pattern below can tell from Python's case mapping of them.
OtherLetters ==
    {"u00E9", "u00E8", "u00EA", "u00F3", "u00ED", "u0131",
     "u6708", "u6BCE", "u6BCF", "u984D", "uC6D4", "uB9E4",
     "u0E40", "u0E14", "u0E2D", "u0E19", "u0E15",
     "u4E4B", "u540E", "u4EE5", "u5F8C", "u305D", "u306E", "u964D",
     "uC774", "uD6C4", "uB2E4", "uC74C", "u4E2A", "u304B", "uAC1C",
     "u0142", "u010D", "u043B", "u0432", "u0434", "u0435", "u043D"}

WordChars == Digits \cup UpperLetters \cup LowerLetters \cup OtherLetters \cup {"_"}

\* Python's \s on str: the ASCII white space and the no-break space.
SpaceChars == {" ", "\t", "\n", "\r", "u00A0"}

LowerOf ==
    [c \in UpperLetters |->
        CASE c = "A" -> "a" [] c = "B" -> "b" [] c = "C" -> "c" [] c = "D" -> "d"
          [] c = "E" -> "e" [] c = "F" -> "f" [] c = "G" -> "g" [] c = "H" -> "h"
          [] c = "I" -> "i" [] c = "J" -> "j" [] c = "K" -> "k" [] c = "L" -> "l"
          [] c = "M" -> "m" [] c = "N" -> "n" [] c = "O" -> "o" [] c = "P" -> "p"
          [] c = "Q" -> "q" [] c = "R" -> "r" [] c = "S" -> "s" [] c = "T" -> "t"
          [] c = "U" -> "u" [] c = "V" -> "v" [] c = "W" -> "w" [] c = "X" -> "x"
          [] c = "Y" -> "y" [] c = "Z" -> "z"]

UpperOf ==
    [c \in LowerLetters |-> CHOOSE u \in UpperLetters : LowerOf[u] = c]

\* str.lower() and str.upper(), character by character.
Lower(s) == [k \in 1..Len(s) |-> IF s[k] \in UpperLetters THEN LowerOf[s[k]] ELSE s[k]]

\* The dotless i has the ASCII I as its upper case.
Upper(s) ==
    [k \in 1..Len(s) |->
        IF s[k] \in LowerLetters THEN UpperOf[s[k]]
        ELSE IF s[k] = "u0131" THEN "I" ELSE s[k]]

(***************************************************************************)
(* Regular expressions.  Every expression carries, beside its structure,   *)
(* what decides cheaply that it cannot match at a position: nul, it can    *)
(* match without consuming a character; any, its first character is not    *)
(* restricted; first, the characters a non-empty match can start with.     *)
(***************************************************************************)
Str(w) == [t |-> "str", w |-> w, nul |-> w = <<>>, any |-> FALSE,
           first |-> IF w = <<>> THEN {} ELSE {w[1]}]

Cls(c) == [t |-> "cls", c |-> c, nul |-> FALSE, any |-> FALSE, first |-> c]

NotCls(c) == [t |-> "ncls", c |-> c, nul |-> FALSE, any |-> TRUE, first |-> {}]

\* The parts of rs that can hold the first character of a match of rs[1] rs[2] ...
Leading(rs) == {k \in 1..Len(rs) : \A j \in 1..(k - 1) : rs[j].nul}

Cat(rs) == [t |-> "cat", rs |-> rs,
            nul |-> \A k \in 1..Len(rs) : rs[k].nul,
            any |-> \E k \in Leading(rs) : rs[k].any,
            first |-> UNION {rs[k].first : k \in Leading(rs)}]

Alt(rs) == [t |-> "alt", rs |-> rs,
            nul |-> \E k \in 1..Len(rs) : rs[k].nul,
            any |-> \E k \in 1..Len(rs) : rs[k].any,
            first |-> UNION {rs[k].first : k \in 1..Len(rs)}]

\* r{lo,hi}, greedy
Rep(r, lo, hi) == [t |-> "rep", r |-> r, lo |-> lo, hi |-> hi,
                   nul |-> lo = 0 \/ r.nul, any |-> r.any, first |-> r.first]

\* The count that stands for "no upper limit" in * and +.
RepMax == 1000

Star(r) == Rep(r, 0, RepMax)

Plus(r) == Rep(r, 1, RepMax)

Opt(r) == Rep(r, 0, 1)

\* r{lo,hi}?, which prefers the fewest repetitions
Lazy(r, lo, hi) == [t |-> "lazy", r |-> r, lo |-> lo, hi |-> hi,
                    nul |-> lo = 0 \/ r.nul, any |-> r.any, first |-> r.first]

\* \b
WB == [t |-> "wb", nul |-> TRUE, any |-> FALSE, first |-> {}]

\* ^
Bol == [t |-> "bol", nul |-> TRUE, any |-> FALSE, first |-> {}]

\* $
Eol == [t |-> "eol", nul |-> TRUE, any |-> FALSE, first |-> {}]

\* (?=r)
Ahead(r) == [t |-> "ahead", r |-> r, nul |-> TRUE, any |-> FALSE, first |-> {}]

\* (?<![c]) for a one-character class
NotBehind(c) == [t |-> "nbehind", c |-> c, nul |-> TRUE, any |-> FALSE, first |-> {}]

IsWordAt(s, i) == i >= 1 /\ i <= Len(s) /\ s[i] \in WordChars

\* r may match at position i of s, as far as the first character tells.
Admits(r, s, i) == r.nul \/ (i <= Len(s) /\ (r.any \/ s[i] \in r.first))

RECURSIVE FlatSeq(_)
FlatSeq(ss) == IF ss = <<>> THEN <<>> ELSE Head(ss) \o FlatSeq(Tail(ss))

RECURSIVE Match(_, _, _)
RECURSIVE MatchCat(_, _, _, _)
RECURSIVE MatchRep(_, _, _, _)
RECURSIVE MatchLazy(_, _, _, _)
\* The positions where a match of r that starts at position i of s can end
\* (the position after its last character), in the matcher's order of
\* preference.
Match(r, s, i) ==
    IF ~Admits(r, s, i) THEN <<>>
    ELSE
    CASE r.t = "str" ->
           IF i + Len(r.w) - 1 <= Len(s) /\ SubSeq(s, i, i + Len(r.w) - 1) = r.w
           THEN <<i + Len(r.w)>> ELSE <<>>
      [] r.t = "cls" -> IF i <= Len(s) /\ s[i] \in r.c THEN <<i + 1>> ELSE <<>>
      [] r.t = "ncls" -> IF i <= Len(s) /\ s[i] \notin r.c THEN <<i + 1>> ELSE <<>>
      [] r.t = "cat" -> MatchCat(r.rs, 1, s, i)
      [] r.t = "alt" -> FlatSeq([k \in 1..Len(r.rs) |-> Match(r.rs[k], s, i)])
      [] r.t = "rep" -> MatchRep(r, 0, s, i)
      [] r.t = "lazy" -> MatchLazy(r, 0, s, i)
      [] r.t = "wb" -> IF IsWordAt(s, i - 1) # IsWordAt(s, i) THEN <<i>> ELSE <<>>
      [] r.t = "bol" -> IF i = 1 THEN <<i>> ELSE <<>>
      [] r.t = "eol" -> IF i = Len(s) + 1 THEN <<i>> ELSE <<>>
      [] r.t = "ahead" -> IF Match(r.r, s, i) # <<>> THEN <<i>> ELSE <<>>
      [] r.t = "nbehind" -> IF i > 1 /\ s[i - 1] \in r.c THEN <<>> ELSE <<i>>

MatchCat(rs, k, s, i) ==
    IF k > Len(rs) THEN <<i>>
    ELSE LET Rest(ends) ==
                 FlatSeq([n \in 1..Len(ends) |-> MatchCat(rs, k + 1, s, ends[n])])
         IN  Rest(Match(rs[k], s, i))

MatchRep(r, n, s, i) ==
    LET stop == IF n >= r.lo THEN <<i>> ELSE <<>>
        More(ends) ==
            FlatSeq([m \in 1..Len(ends) |-> MatchRep(r, n + 1, s, ends[m])])
    IN  IF n >= r.hi THEN stop
        ELSE More(SelectSeq(Match(r.r, s, i), LAMBDA j : j > i)) \o stop

MatchLazy(r, n, s, i) ==
    LET stop == IF n >= r.lo THEN <<i>> ELSE <<>>
        More(ends) ==
            FlatSeq([m \in 1..Len(ends) |-> MatchLazy(r, n + 1, s, ends[m])])
    IN  IF n >= r.hi THEN stop
        ELSE stop \o More(SelectSeq(Match(r.r, s, i), LAMBDA j : j > i))

\* re.search(r, s) from position `from`: <<start, end>> of the leftmost match,
\* the empty sequence when there is none.  The match of s[a..b] is reported as
\* <<a, b + 1>>.
SearchFrom(r, s, from) ==
    LET At(p) == <<p, Head(Match(r, s, p))>>
        Leftmost(starts) ==
            IF starts = {} THEN <<>>
            ELSE At(CHOOSE q \in starts : \A o \in starts : q <= o)
    IN  Leftmost({p \in from..(Len(s) + 1) : Admits(r, s, p) /\ Match(r, s, p) # <<>>})

Search(r, s) == SearchFrom(r, s, 1)

Found(r, s) == Search(r, s) # <<>>

RECURSIVE FindIterFrom(_, _, _)
\* re.finditer: the non-overlapping matches, left to right.
FindIterFrom(r, s, from) ==
    LET Onward(m) ==
            IF m = <<>> THEN <<>>
            ELSE <<m>> \o FindIterFrom(r, s, IF m[2] > m[1] THEN m[2] ELSE m[2] + 1)
    IN  Onward(SearchFrom(r, s, from))

FindIter(r, s) == FindIterFrom(r, s, 1)

\* s[a:b] of Python for 0-based a <= b, as positions: the characters a+1 .. b.
Slice(s, a, b) == SubSeq(s, a + 1, b)

(***************************************************************************)
(* Price tokens (apple_music_scraper.py)                                   *)
(***************************************************************************)
\* CURRENCY_TOKEN: the alternatives in the order of the source.
CurrencyWords ==
    <<<<"R", "M", "B">>, <<"C", "N", "u00A5">>, <<"U", "S", "$">>, <<"C", "A", "$">>, <<"A", "U", "$">>, <<"H", "K", "$">>, <<"N", "T", "$">>, <<"M", "O", "P", "$">>,
      <<"N", "Z", "$">>, <<"R", "M">>, <<"S", "/", ".">>, <<"R", "$">>, <<"C", "H", "F">>, <<"R", "p">>, <<"k", "r">>,
      <<"$">>, <<"u20AC">>, <<"u00A3">>, <<"u00A5">>, <<"uFFE5">>, <<"u20A9">>, <<"u20AB">>, <<"u20B1">>, <<"u20B9">>, <<"u20AA">>, <<"u20AD">>,
      <<"u20AE">>, <<"u20A6">>, <<"u20B2">>, <<"u20B4">>, <<"u20B8">>, <<"T", "S", "h">>, <<"K", "S", "h">>, <<"U", "S", "h">>, <<"Z", "A", "R">>,
      <<"Z", "W", "L">>, <<"R">>,
      <<"S", "A", "R">>, <<"Q", "A", "R">>, <<"A", "E", "D">>, <<"K", "W", "D">>, <<"B", "H", "D">>, <<"O", "M", "R">>>>

CURRENCY_TOKEN == Alt([k \in 1..Len(CurrencyWords) |-> Str(CurrencyWords[k])])

\* CURRENCY_TOKEN under re.I: matched against the lower-cased text.
CURRENCY_TOKEN_I == Alt([k \in 1..Len(CurrencyWords) |-> Str(Lower(CurrencyWords[k]))])

Digit == Cls(Digits)

Space == Cls(SpaceChars)

\* NUMBER_TOKEN = (\d+(?:[.,\s]\d{3})*(?:[.,]\d{1,2})?)
NUMBER_TOKEN ==
    Cat(<<Plus(Digit),
          Star(Cat(<<Cls({".", ","} \cup SpaceChars), Rep(Digit, 3, 3)>>)),
          Opt(Cat(<<Cls({".", ","}), Rep(Digit, 1, 2)>>))>>)

\* BANNER_PRICE_REGEX with the currency made optional.
BANNER_PRICE_REGEX_bare_number ==
    Cat(<<Alt(<<Cat(<<Opt(CURRENCY_TOKEN), Star(Space), NUMBER_TOKEN>>),
                Cat(<<NUMBER_TOKEN, Star(Space), Opt(CURRENCY_TOKEN)>>)>>),
          Opt(Str(<<"*">>))>>)

\* (?:CURRENCY_TOKEN\s*NUMBER_TOKEN|NUMBER_TOKEN\s*CURRENCY_TOKEN)\*?
BANNER_PRICE_REGEX ==
    Cat(<<Alt(<<Cat(<<CURRENCY_TOKEN, Star(Space), NUMBER_TOKEN>>),
                Cat(<<NUMBER_TOKEN, Star(Space), CURRENCY_TOKEN>>)>>),
          Opt(Str(<<"*">>))>>)

(***************************************************************************)
(* Numbers.  The amount of a price is a number of hundredths, which is     *)
(* exact for the one or two decimals _normalize_number keeps; NoNum is a   *)
(* parse that failed (the empty string of the source).                     *)
(***************************************************************************)
NoNum == -1

DigitVal ==
    [c \in Digits |->
        CASE c = "0" -> 0 [] c = "1" -> 1 [] c = "2" -> 2 [] c = "3" -> 3
          [] c = "4" -> 4 [] c = "5" -> 5 [] c = "6" -> 6 [] c = "7" -> 7
          [] c = "8" -> 8 [] c = "9" -> 9]

DigitChar == [n \in 0..9 |-> CHOOSE c \in Digits : DigitVal[c] = n]

AllDigits(p) == \A k \in 1..Len(p) : p[k] \in Digits

RECURSIVE IntOf(_)
\* int() of a string of digits; 0 for the empty string.
IntOf(p) == IF p = <<>> THEN 0 ELSE 10 * IntOf(SubSeq(p, 1, Len(p) - 1)) + DigitVal[p[Len(p)]]

RECURSIVE IntStr(_)
\* str() of a natural number.
IntStr(n) == IF n < 10 THEN <<DigitChar[n]>> ELSE IntStr(n \div 10) \o <<DigitChar[n % 10]>>

\* str.replace(c, ""), for every character c of the set cs.
Without(p, cs) == SelectSeq(p, LAMBDA c : c \notin cs)

\* ([.,])(\d{1,2})$
DecimalTail == Cat(<<Cls({".", ","}), Rep(Digit, 1, 2), Eol>>)

\* float(q) for q = base "." frac as the callers build it, in hundredths.
\* float() accepts the digit strings; strings with any other character that
\* the callers' patterns let through (white space inside the number) make it
\* raise.
FloatOf(base, frac) ==
    IF ~AllDigits(base) \/ ~AllDigits(frac) \/ (base = <<>> /\ frac = <<>>) THEN NoNum
    ELSE 100 * IntOf(base)
         + (IF Len(frac) = 1 THEN 10 * IntOf(frac) ELSE IntOf(frac))

(***************************************************************************)
(* float() and str() of Python, for numbers of any size.  A float is kept  *)
(* as the digits of its shortest decimal form, without the zeros before    *)
(* and after them, and decpt, the number of those digits that stand before *)
(* the decimal point.  A double holds every decimal of at most DblDig      *)
(* digits, and str() gives its digits back; the numbers of the model stay  *)
(* within DblDig digits.                                                   *)
(***************************************************************************)
DblDig == 15

Float(digits, decpt) == [digits |-> digits, decpt |-> decpt]

\* float(q) raises.
NoFloat == Float(<<>>, NoNum)

\* The number of zeros a string of digits starts with, and ends with.
LeadZ(ds) ==
    IF \A k \in 1..Len(ds) : ds[k] = "0" THEN Len(ds)
    ELSE (CHOOSE k \in 1..Len(ds) : ds[k] # "0" /\ \A j \in 1..(k - 1) : ds[j] = "0") - 1

TrailZ(ds) ==
    IF \A k \in 1..Len(ds) : ds[k] = "0" THEN Len(ds)
    ELSE Len(ds) - (CHOOSE k \in 1..Len(ds) :
                        ds[k] # "0" /\ \A j \in (k + 1)..Len(ds) : ds[j] = "0")

Zeros(n) == [k \in 1..n |-> "0"]

\* The least number of a set of numbers.
Least(ks) == CHOOSE k \in ks : \A j \in ks : k <= j

\* The number ip.fp times ten to the power e, for strings of digits ip, fp.
Decimal(ip, fp, e) ==
    LET Of(ds, z) ==
            IF z = Len(ds) THEN Float(<<>>, 0)
            ELSE Float(SubSeq(ds, z + 1, Len(ds) - TrailZ(ds)), Len(ip) - z + e)
    IN  Of(ip \o fp, LeadZ(ip \o fp))

\* float(q) of a literal q: digits with at most one point among them, then
\* possibly e or E, a sign and digits.  Anything else that the strings of
\* _normalize_number can hold makes float raise.
float(q) ==
    LET Split(ip, fp, e) ==
            IF ~AllDigits(ip) \/ ~AllDigits(fp) \/ ip \o fp = <<>> THEN NoFloat
            ELSE Decimal(ip, fp, e)
        PointAt(m, dots, e) ==
            Split(IF dots = {} THEN m ELSE SubSeq(m, 1, Least(dots) - 1),
                  IF dots = {} THEN <<>> ELSE SubSeq(m, Least(dots) + 1, Len(m)), e)
        Mantissa(m, e) == PointAt(m, {k \in 1..Len(m) : m[k] = "."}, e)
        Signed(m, sign, ds) ==
            IF ds = <<>> \/ ~AllDigits(ds) THEN NoFloat ELSE Mantissa(m, sign * IntOf(ds))
        Exponent(m, x) ==
            Signed(m, IF x # <<>> /\ x[1] = "-" THEN -1 ELSE 1,
                   IF x # <<>> /\ x[1] \in {"+", "-"} THEN Tail(x) ELSE x)
        ExpAt(es) ==
            Exponent(IF es = {} THEN q ELSE SubSeq(q, 1, Least(es) - 1),
                     IF es = {} THEN <<"0">> ELSE SubSeq(q, Least(es) + 1, Len(q)))
    IN  ExpAt({k \in 1..Len(q) : q[k] \in {"e", "E"}})

str_three_decimals(f) ==
    LET Plain(ds, decpt) ==
            IF decpt <= 0 THEN <<"0", ".">> \o SubSeq(Zeros(0 - decpt) \o ds \o <<"0", "0", "0">>, 1, 3)
            ELSE SubSeq(ds \o Zeros(decpt), 1, decpt) \o <<".">>
                 \o SubSeq(SubSeq(ds, decpt + 1, Len(ds)) \o <<"0", "0", "0">>, 1, 3)
    IN  IF f.digits = <<>> THEN <<"0", ".", "0", "0", "0">> ELSE Plain(f.digits, f.decpt)

\* str(f) of a float: repr gives the exponent form when decpt is above 16 or
\* under -3, and the plain form otherwise.
str(f) ==
    LET Two(n) == IF n < 10 THEN <<"0">> \o IntStr(n) ELSE IntStr(n)
        Power(x) == IF x < 0 THEN <<"e", "-">> \o Two(0 - x) ELSE <<"e", "+">> \o Two(x)
        Sci(ds, x) ==
            <<ds[1]>> \o (IF Len(ds) > 1 THEN <<".">> \o Tail(ds) ELSE <<>>) \o Power(x)
        Plain(ds, decpt) ==
            IF decpt <= 0 THEN <<"0", ".">> \o Zeros(0 - decpt) \o ds
            ELSE IF Len(ds) <= decpt THEN ds \o Zeros(decpt - Len(ds)) \o <<".", "0">>
            ELSE SubSeq(ds, 1, decpt) \o <<".">> \o SubSeq(ds, decpt + 1, Len(ds))
    IN  IF f.digits = <<>> THEN <<"0", ".", "0">>
        ELSE IF f.decpt > 16 \/ f.decpt < -3 THEN Sci(f.digits, f.decpt - 1)
        ELSE Plain(f.digits, f.decpt)

\* _normalize_number(p): the string it returns, <<>> for "".
_normalize_number(p0) ==
    LET Shown(f) == IF f = NoFloat THEN <<>> ELSE str(f)
        Value(p, dm) ==
            float(IF dm # <<>>
                  THEN Without(SubSeq(p, 1, dm[1] - 1), {".", ","}) \o <<".">>
                       \o SubSeq(p, dm[1] + 1, Len(p))
                  ELSE Without(p, {".", ","}))
        Spaceless(p) == Shown(Value(p, Search(DecimalTail, p)))
    IN  Spaceless(Without(p0, {" "}))

\* float(num) of a string _normalize_number returned.
ParseFloat(num) ==
    LET Split(dot) == FloatOf(SubSeq(num, 1, dot - 1), SubSeq(num, dot + 1, Len(num)))
    IN  Split(CHOOSE k \in 1..Len(num) : num[k] = ".")

(***************************************************************************)
(* Currency tables (apple_music_scraper.py)                                *)
(***************************************************************************)
\* One row of a pattern table: the pattern, whether it carries (?i), and the
\* ISO code it stands for.
Row(re, ci, iso) == [re |-> re, ci |-> ci, iso |-> iso]

\* re.search(row.re, s), the (?i) rows against the lower-cased text.
RowSearch(row, s) == Search(row.re, IF row.ci THEN Lower(s) ELSE s)

STRONG_TOKENS ==
    <<Row(Cat(<<WB, Str(<<"r", "m", "b">>), WB>>), TRUE, <<"C", "N", "Y">>),
      Row(Str(<<"C", "N", "u00A5">>), FALSE, <<"C", "N", "Y">>),
      Row(Str(<<"u", "s", "$">>), TRUE, <<"U", "S", "D">>),
      Row(Str(<<"$", "u", "s">>), TRUE, <<"U", "S", "D">>),
      Row(Str(<<"u", "$", "s">>), TRUE, <<"U", "S", "D">>),
      Row(Cat(<<WB, Str(<<"a", "$">>)>>), TRUE, <<"A", "U", "D">>),
      Row(Cat(<<WB, Str(<<"n", "z", "$">>)>>), TRUE, <<"N", "Z", "D">>),
      Row(Cat(<<WB, Str(<<"h", "k", "$">>)>>), TRUE, <<"H", "K", "D">>),
      Row(Cat(<<WB, Str(<<"n", "t", "$">>)>>), TRUE, <<"T", "W", "D">>),
      Row(Cat(<<WB, Str(<<"s", "$">>)>>), TRUE, <<"S", "G", "D">>),
      Row(Cat(<<WB, Str(<<"r", "d", "$">>)>>), TRUE, <<"D", "O", "P">>),
      Row(Cat(<<WB, Str(<<"n", "$">>)>>), TRUE, <<"N", "A", "D">>),
      Row(Str(<<"R", "$">>), FALSE, <<"B", "R", "L">>),
      Row(Str(<<"S", "/", ".">>), FALSE, <<"P", "E", "N">>),
      Row(Str(<<"S", "/">>), FALSE, <<"P", "E", "N">>),
      Row(Cat(<<Str(<<"B", "s">>), Opt(Str(<<".">>))>>), FALSE, <<"B", "O", "B">>),
      Row(Cat(<<Str(<<"G", "s">>), Opt(Str(<<".">>))>>), FALSE, <<"P", "Y", "G">>),
      Row(Str(<<"u20B2">>), FALSE, <<"P", "Y", "G">>),
      Row(Cat(<<Str(<<"Q">>), Ahead(Cls(SpaceChars \cup Digits))>>), FALSE, <<"G", "T", "Q">>),
      Row(Str(<<"K", "S", "h">>), FALSE, <<"K", "E", "S">>),
      Row(Str(<<"T", "S", "h">>), FALSE, <<"T", "Z", "S">>),
      Row(Str(<<"U", "S", "h">>), FALSE, <<"U", "G", "X">>),
      Row(Str(<<"R", "p">>), FALSE, <<"I", "D", "R">>),
      Row(Str(<<"u20AC">>), FALSE, <<"E", "U", "R">>),
      Row(Str(<<"u00A3">>), FALSE, <<"G", "B", "P">>),
      Row(Str(<<"u20B9">>), FALSE, <<"I", "N", "R">>),
      Row(Cat(<<NotBehind(UpperLetters), Str(<<"R">>), Opt(Space), Ahead(Digit)>>),
          FALSE, <<"Z", "A", "R">>)>>

\* str.strip(): without the white space at both ends.
RECURSIVE Strip(_)
Strip(s) ==
    IF s = <<>> THEN s
    ELSE IF Head(s) \in SpaceChars THEN Strip(Tail(s))
    ELSE IF s[Len(s)] \in SpaceChars THEN Strip(SubSeq(s, 1, Len(s) - 1))
    ELSE s

\* _clean(s) = s.replace("\xa0", " ").strip()
_clean(s) == Strip([k \in 1..Len(s) |-> IF s[k] = "u00A0" THEN " " ELSE s[k]])

\* num_pat = \d[\d\s.,]*
num_pat == Cat(<<Digit, Star(Cls(Digits \cup SpaceChars \cup {".", ","}))>>)

ThreeUpper == Rep(Cls(UpperLetters), 3, 3)

\* The text of a match <<a, e>> of s; the empty match list has none.
Group(s, m) == SubSeq(s, m[1], m[2] - 1)

RECURSIVE Bounds(_, _, _, _)
\* The ways the patterns rs[k..] match one after another from position i, each
\* as the sequence of positions where the parts start and the last one ends,
\* in the matcher's order of preference.
Bounds(rs, k, s, i) ==
    IF k > Len(rs) THEN <<<<i>>>>
    ELSE LET From(rest) == [m \in 1..Len(rest) |-> <<i>> \o rest[m]]
             Each(ends) ==
                 FlatSeq([n \in 1..Len(ends) |-> From(Bounds(rs, k + 1, s, ends[n]))])
         IN  Each(Match(rs[k], s, i))

\* re.search of the concatenation of rs: the part boundaries of the leftmost
\* match, the empty sequence when there is none.
SearchParts(rs, s, from) ==
    LET Parts(m) == IF m = <<>> THEN <<>> ELSE Head(Bounds(rs, 1, s, m[1]))
    IN  Parts(SearchFrom(Cat(rs), s, from))

\* The symbols of the fourth pattern of extract_amount_number, under re.I.
AmountSymbols ==
    Alt(<<Str(<<"r", "m", "b">>), Str(<<"c", "n", "u00A5">>), Str(<<"u", "s", "$">>),
          Cls({"u20AC", "u00A3", "u00A5", "uFFE5", "u20A9", "u20AB", "u20BA", "u20AA", "u20B4", "u20BC", "u20BE", "u20AD", "u0E3F", "u20A6", "u20B5", "u20B1", "u20B8"}),
          Str(<<"n", "t", "$">>), Str(<<"h", "k", "$">>), Str(<<"s", "/", ".">>), Str(<<"s", "/">>), Str(<<"r", "$">>),
          Str(<<"r", "d", "$">>), Str(<<"n", "$">>), Str(<<"k", "s", "h">>), Str(<<"t", "s", "h">>), Str(<<"u", "s", "h">>),
          Str(<<"r", "p">>)>>)

RECURSIVE AmountAfterStrong(_, _)
\* The loop over STRONG_TOKENS of extract_amount_number from row k on: the
\* number after the first row that matches and has a number after it; <<>>
\* when no row does.  A found number is returned as <<text>>.
AmountAfterStrong(t, k) ==
    IF k > Len(STRONG_TOKENS) THEN <<>>
    ELSE LET Number(n) ==
                 IF n # <<>> THEN <<Group(t, n)>> ELSE AmountAfterStrong(t, k + 1)
             After(m) == Number(IF m = <<>> THEN <<>> ELSE SearchFrom(num_pat, t, m[2]))
         IN  After(RowSearch(STRONG_TOKENS[k], t))

\* extract_amount_number(text): the number string it hands to
\* _normalize_number, as <<string>>, or <<>> where it returns "" itself.
AmountText(text) ==
    LET \* 5) the last number of the text
        LastNumber(t, all) == IF all # <<>> THEN <<Group(t, all[Len(all)])>> ELSE <<>>
        \* 4) a symbol, then a number
        InSymbol(t, g, n4) ==
            IF n4 # <<>> THEN <<Group(g, n4)>> ELSE LastNumber(t, FindIter(num_pat, t))
        AfterSymbol(t, m4) ==
            IF m4 = <<>> THEN LastNumber(t, FindIter(num_pat, t))
            ELSE InSymbol(t, Group(t, m4), Search(num_pat, Group(t, m4)))
        \* 3) a number, then a code
        BeforeCode(t, S, m3) ==
            IF m3 # <<>> /\ SubSeq(S, m3[4], m3[5] - 1) # <<"T", "R", "Y">>
            THEN <<SubSeq(S, m3[1], m3[2] - 1)>>
            ELSE AfterSymbol(t, Search(Cat(<<AmountSymbols, Star(Space), num_pat>>),
                                       Lower(t)))
        \* 2) a code, then a number
        AfterCode(t, S, m2) ==
            IF m2 # <<>> /\ SubSeq(S, m2[2], m2[3] - 1) # <<"T", "R", "Y">>
            THEN <<SubSeq(S, m2[5], m2[6] - 1)>>
            ELSE BeforeCode(t, S, SearchParts(<<num_pat, Star(Space), WB, ThreeUpper, WB>>,
                                              S, 1))
        \* 1) a strong token, then a number
        AfterStrong(t, S, st) ==
            IF st # <<>> THEN st
            ELSE AfterCode(t, S, SearchParts(<<WB, ThreeUpper, WB, Star(Space), num_pat>>,
                                             S, 1))
        Cleaned(t) == AfterStrong(t, Upper(t), AmountAfterStrong(t, 1))
    IN  IF Strip(text) = <<>> THEN <<>> ELSE Cleaned(_clean(text))

extract_amount_number(text) ==
    LET Normal(a) == IF a = <<>> THEN <<>> ELSE _normalize_number(a[1])
    IN  Normal(AmountText(text))

(***************************************************************************)
(* normalize_for_price_extraction                                          *)
(***************************************************************************)
RECURSIVE Splice(_, _, _, _)
\* re.sub: s with each match edits[k] = [a, e, rep] (the characters a..e-1)
\* replaced by rep, from edit k and position pos on.
Splice(s, edits, k, pos) ==
    IF k > Len(edits) THEN SubSeq(s, pos, Len(s))
    ELSE SubSeq(s, pos, edits[k].a - 1) \o edits[k].rep
         \o Splice(s, edits, k + 1, edits[k].e)

\* re.sub(r"\s+", " ", s)
CollapseSpaces(s) ==
    LET Sub(ms) ==
            Splice(s, [n \in 1..Len(ms) |->
                         [a |-> ms[n][1], e |-> ms[n][2], rep |-> <<" ">>]], 1, 1)
    IN  Sub(FindIter(Plus(Space), s))

StitchPunctParts == <<Digit, Star(Space), Cls({".", ","}), Star(Space), Digit>>

\* re.sub(r"(\d)\s*([.,])\s*(\d)", r"\1\2\3", s)
StitchPunct(s) ==
    LET Edit(m, b) == [a |-> m[1], e |-> m[2], rep |-> <<s[b[1]], s[b[3]], s[b[5]]>>]
        Sub(ms) ==
            Splice(s, [n \in 1..Len(ms) |->
                         Edit(ms[n], Head(Bounds(StitchPunctParts, 1, s, ms[n][1])))], 1, 1)
    IN  Sub(FindIter(Cat(StitchPunctParts), s))

StitchCurrencyParts == <<CURRENCY_TOKEN_I, Plus(Space), Digit>>

\* re.sub(rf"({CURRENCY_TOKEN})\s+(\d)", r"\1\2", s, flags=re.I).  CURRENCY_TOKEN
\* has parentheses of its own, so group 1 and group 2 are both the currency
\* and the digit is group 3: the replacement is the currency twice.
StitchCurrency(s) ==
    LET Edit(m, b) ==
            [a |-> m[1], e |-> m[2],
             rep |-> SubSeq(s, b[1], b[2] - 1) \o SubSeq(s, b[1], b[2] - 1)]
        Sub(low, ms) ==
            Splice(s, [n \in 1..Len(ms) |->
                         Edit(ms[n], Head(Bounds(StitchCurrencyParts, 1, low, ms[n][1])))],
                   1, 1)
        Lowered(low) == Sub(low, FindIter(Cat(StitchCurrencyParts), low))
    IN  Lowered(Lower(s))

StitchGroupsParts ==
    <<Rep(Digit, 1, 3), Star(Space), CURRENCY_TOKEN_I, Star(Space), Rep(Digit, 3, 3), WB>>

\* re.sub(rf"(\d{{1,3}})\s*({CURRENCY_TOKEN})\s*(\d{{3}})\b", r"\2\1 \3", s,
\* flags=re.I): for the same reason group 2 and group 3 are both the currency.
StitchGroups(s) ==
    LET Edit(m, b) ==
            [a |-> m[1], e |-> m[2],
             rep |-> SubSeq(s, b[3], b[4] - 1) \o SubSeq(s, b[1], b[2] - 1) \o <<" ">>
                     \o SubSeq(s, b[3], b[4] - 1)]
        Sub(low, ms) ==
            Splice(s, [n \in 1..Len(ms) |->
                         Edit(ms[n], Head(Bounds(StitchGroupsParts, 1, low, ms[n][1])))],
                   1, 1)
        Lowered(low) == Sub(low, FindIter(Cat(StitchGroupsParts), low))
    IN  Lowered(Lower(s))

normalize_for_price_extraction(s) ==
    LET Stitched(c) ==
            IF c = <<>> THEN <<>>
            ELSE StitchGroups(StitchCurrency(StitchPunct(CollapseSpaces(c))))
    IN  Stitched(_clean(s))

(***************************************************************************)
(* Context markers.  All three patterns carry (?i): they are written in    *)
(* lower case and searched in the lower-cased window.                      *)
(***************************************************************************)
Sp0 == Star(Space)

Sp1 == Plus(Space)

\* m[eéê]s
Mes == Cat(<<Str(<<"m">>), Cls({"e", "u00E9", "u00EA"}), Str(<<"s">>)>>)

MONTHLY_POS_RE ==
    Alt(<<Cat(<<Str(<<"/">>), Sp0, Str(<<"m", "o", "n", "t", "h">>), WB>>),
          Cat(<<Str(<<"p", "e", "r">>), Sp1, Str(<<"m", "o", "n", "t", "h">>), WB>>),
          Cat(<<Str(<<"m", "o", "n", "t", "h", "l", "y">>), WB>>),
          Cat(<<Str(<<"/">>), Sp0, Str(<<"m", "o">>), WB>>),
          Cat(<<Str(<<"/">>), Sp0, Str(<<"m", "t", "h">>), WB>>),
          Cat(<<WB, Str(<<"a", "l">>), Sp1, Mes, WB>>),
          Cat(<<WB, Str(<<"p", "o", "r">>), Sp1, Mes, WB>>),
          Cat(<<Str(<<"/">>), Mes, WB>>),
          Cat(<<WB, Str(<<"m", "e", "n", "s", "u", "a", "l">>), Opt(Str(<<"e", "s">>)), WB>>),
          Cat(<<WB, Str(<<"p", "a", "r">>), Sp1, Str(<<"m", "o", "i", "s">>), WB>>),
          Cat(<<Str(<<"/", "m", "o", "i", "s">>), WB>>),
          Cat(<<WB, Str(<<"m", "e", "n", "s", "u", "e", "l">>), Opt(Alt(<<Str(<<"l", "e">>), Str(<<"s">>)>>)), WB>>),
          Cat(<<WB, Str(<<"p", "r", "o">>), Sp1, Str(<<"m", "o", "n", "a", "t">>), WB>>),
          Cat(<<Str(<<"/", "m", "o", "n", "a", "t">>), WB>>),
          Cat(<<WB, Str(<<"m", "o", "n", "a", "t", "l", "i", "c", "h">>), WB>>),
          Cat(<<WB, Str(<<"a", "l">>), Sp1, Str(<<"m", "e", "s", "e">>), WB>>),
          Cat(<<Str(<<"/", "m", "e", "s", "e">>), WB>>),
          Cat(<<WB, Str(<<"m", "e", "n", "s", "i", "l", "e">>), WB>>),
          Cat(<<WB, Str(<<"p", "e", "r">>), Sp1, Str(<<"m", "a", "a", "n", "d">>), WB>>),
          Cat(<<Str(<<"/", "m", "a", "a", "n", "d">>), WB>>),
          Cat(<<WB, Str(<<"m", "a", "a", "n", "d", "e", "l", "i", "j", "k", "s">>), WB>>),
          Str(<<"/", "u6708">>), Str(<<"u6BCE", "u6708">>), Str(<<"u6BCF", "u6708">>), Str(<<"u6708", "u984D">>), Str(<<"/", "uC6D4">>), Str(<<"uB9E4", "uC6D4">>),
          Cat(<<Str(<<"/">>), Alt(<<Str(<<"b", "u", "l", "a", "n">>), Str(<<"a", "y">>), Str(<<"u0E40", "u0E14", "u0E37", "u0E2D", "u0E19">>)>>), WB>>),
          Cat(<<Str(<<"p", "e", "r">>), Sp1, Str(<<"b", "u", "l", "a", "n">>), WB>>),
          Cat(<<Str(<<"a", "y", "l">>), Cls({"u0131", "i"}), Str(<<"k">>), WB>>),
          Cat(<<Str(<<"u0E15", "u0E48", "u0E2D", "u0E40", "u0E14", "u0E37", "u0E2D", "u0E19">>), WB>>)>>)

THEN_POS_RE ==
    Cat(<<WB,
          Alt(<<Str(<<"t", "h", "e", "n">>), Str(<<"t", "h", "e", "r", "e", "a", "f", "t", "e", "r">>), Str(<<"a", "f", "t", "e", "r">>),
                Str(<<"l", "u", "e", "g", "o">>),
                Cat(<<Str(<<"d", "e", "s", "p", "u">>), Cls({"e", "u00E9"}), Str(<<"s">>)>>),
                Cat(<<Str(<<"a">>), Sp1, Str(<<"p", "a", "r", "t", "i", "r">>), Sp1, Str(<<"d", "e">>)>>),
                Str(<<"e", "n", "s", "u", "i", "t", "e">>), Str(<<"p", "u", "i", "s">>),
                Cat(<<Str(<<"a", "p", "r">>), Cls({"e", "u00E8"}), Str(<<"s">>)>>),
                Str(<<"d", "a", "n", "a", "c", "h">>),
                Str(<<"u4E4B", "u540E">>), Str(<<"u4EE5", "u5F8C">>), Str(<<"u305D", "u306E", "u5F8C">>), Str(<<"u4EE5", "u964D">>),
                Str(<<"uC774", "uD6C4">>), Str(<<"uB2E4", "uC74C">>),
                Str(<<"d", "e", "p", "o", "i", "s">>),
                Cat(<<Str(<<"a", "p">>), Cls({"o", "u00F3"}), Str(<<"s">>)>>)>>),
          WB>>)

\* \d+\s+
CountOf == Cat(<<Plus(Digit), Sp1>>)

INTRO_NEG_RE ==
    Cat(<<WB,
          Alt(<<Str(<<"t", "r", "y">>), Str(<<"t", "r", "i", "a", "l">>), Str(<<"f", "r", "e", "e">>), Str(<<"o", "f", "f", "e", "r">>),
                Str(<<"l", "i", "m", "i", "t", "e", "d">>), Str(<<"i", "n", "t", "r", "o">>),
                Cat(<<Str(<<"n", "e", "w">>), Sp1, Str(<<"s", "u", "b", "s", "c", "r", "i", "b", "e", "r">>), Opt(Str(<<"s">>))>>),
                Cat(<<WB, Str(<<"f", "o", "r">>), Sp1, CountOf, Str(<<"m", "o", "n", "t", "h">>), Opt(Str(<<"s">>)), WB>>),
                Cat(<<WB, CountOf, Str(<<"m", "e", "s">>), Opt(Str(<<"e", "s">>)), WB>>),
                Cat(<<WB, Str(<<"p", "o", "r">>), Sp1, CountOf, Str(<<"m", "e", "s">>), Opt(Str(<<"e", "s">>)), WB>>),
                Cat(<<WB, CountOf, Str(<<"m", "o", "i", "s">>), WB>>),
                Cat(<<WB, CountOf, Str(<<"m", "o", "n", "a", "t">>), Opt(Str(<<"e">>)), WB>>),
                Cat(<<WB, CountOf, Alt(<<Str(<<"u4E2A", "u6708">>), Str(<<"u304B", "u6708">>)>>), WB>>),
                Cat(<<WB, CountOf, Str(<<"uAC1C", "uC6D4">>), WB>>)>>),
          WB>>)

(***************************************************************************)
(* pick_best_price_token                                                   *)
(***************************************************************************)
\* The width of the context window on each side of a price token.
ContextWidth == 60

Max2(a, b) == IF a >= b THEN a ELSE b

Min2(a, b) == IF a <= b THEN a ELSE b

\* The result None.
None == [token |-> <<>>, value |-> NoNum]

\* The candidate of one match m = <<a, e>> of BANNER_PRICE_REGEX in s; `start`
\* is m.start() of the source, counted from 0.
Candidate(s, m) ==
    LET Flagged(tok, start, context) ==
            [token     |-> tok,
             value     |-> ParseFloat(extract_amount_number(tok)),
             start     |-> start,
             has_month |-> Found(MONTHLY_POS_RE, context),
             has_intro |-> Found(INTRO_NEG_RE, context),
             has_then  |-> Found(THEN_POS_RE, context)]
        Around(start, end) ==
            Flagged(Group(s, m), start,
                    Lower(Slice(s, Max2(0, start - ContextWidth),
                                   Min2(Len(s), end + ContextWidth))))
    IN  Around(m[1] - 1, m[2] - 1)

\* The candidates of the normalised text s, in text order: the matches whose
\* amount parses.
Candidates(s) ==
    LET Each(ms) == [n \in 1..Len(ms) |-> Candidate(s, ms[n])]
    IN  Each(SelectSeq(FindIter(BANNER_PRICE_REGEX, s),
                       LAMBDA m : extract_amount_number(Group(s, m)) # <<>>))

\* Tuple comparison of two keys <<rank, value>>.
KeyLess(j, k) == j[1] < k[1] \/ (j[1] = k[1] /\ j[2] < k[2])

\* score(c) with the comparison of the sub-unit penalty turned round.
score_penalty_inverted(c) ==
    <<10 + (IF c.has_then THEN 5 ELSE 0) - (IF c.has_intro THEN 4 ELSE 0)
         - (IF c.value > 100 THEN 8 ELSE 0),
      c.value>>

\* score(c) without the boost for a transition marker.
score_no_then_boost(c) ==
    <<10 - (IF c.has_intro THEN 4 ELSE 0) - (IF c.value < 100 THEN 8 ELSE 0),
      c.value>>

\* score(c) without the discount for an intro marker.
score_no_intro_discount(c) ==
    <<10 + (IF c.has_then THEN 5 ELSE 0) - (IF c.value < 100 THEN 8 ELSE 0),
      c.value>>

\* score(c) of step 1: (s, c["value"]).
score(c) ==
    <<10 + (IF c.has_then THEN 5 ELSE 0) - (IF c.has_intro THEN 4 ELSE 0)
         - (IF c.value < 100 THEN 8 ELSE 0),
      c.value>>

\* The key of step 2 with its condition turned round.
after_key_inverted(c) == <<IF c.has_intro THEN 0 ELSE -5, c.value>>

\* The key of step 2.
after_key(c) == <<IF ~c.has_intro THEN 0 ELSE -5, c.value>>

\* The key of step 4.
value_key(c) == <<0, c.value>>

\* max(cs, key=...): the first element whose key no other exceeds.
MaxBy(cs, Key(_)) ==
    cs[CHOOSE n \in 1..Len(cs) :
          /\ \A m \in 1..Len(cs) : ~KeyLess(Key(cs[n]), Key(cs[m]))
          /\ \A m \in 1..(n - 1) : KeyLess(Key(cs[m]), Key(cs[n]))]

\* The local `pivot` of step 2: thens[-1].start(), counted from 0; NoPivot
\* when the text has no transition marker.
NoPivot == -1

Pivot(s) ==
    LET Last(thens) == IF thens = <<>> THEN NoPivot ELSE thens[Len(thens)][1] - 1
    IN  Last(FindIter(THEN_POS_RE, Lower(s)))

\* The local `best` where the function returns None.
NoBest ==
    [token |-> <<>>, value |-> NoNum, start |-> -1,
     has_month |-> FALSE, has_intro |-> FALSE, has_then |-> FALSE]

\* The local `best` of pick_best_price_token over the candidates cs, where
\* pivot is Pivot of the normalised text.
BestAmong(cs, pivot) ==
    LET any_intro == \E n \in 1..Len(cs) : cs[n].has_intro
        Steps(monthly, after) ==
            IF cs = <<>> THEN NoBest
            ELSE IF monthly # <<>> THEN MaxBy(monthly, score)
            ELSE IF pivot # NoPivot /\ after # <<>> THEN MaxBy(after, after_key)
            ELSE IF any_intro THEN NoBest
            ELSE MaxBy(cs, value_key)
    IN  Steps(SelectSeq(cs, LAMBDA c : c.has_month),
              SelectSeq(cs, LAMBDA c : c.start > pivot))

\* return best["token"], best["value"]
Returned(best) == IF best = NoBest THEN None ELSE [token |-> best.token, value |-> best.value]

pick_best_price_token(text) ==
    LET Normalised(s) == Returned(BestAmong(Candidates(s), Pivot(s)))
    IN  IF text = <<>> THEN None ELSE Normalised(normalize_for_price_extraction(text))

(***************************************************************************)
(* Inputs of the selector: plan-card texts of one or two price clauses,    *)
(* each a lead, a price and a trailer, next to each other or a sentence    *)
(* apart; and the texts the specification gives as examples.               *)
(***************************************************************************)
Leads == {<<>>, <<"t", "h", "e", "n", " ">>, <<"f", "r", "e", "e", " ">>, <<"t", "h", "e", "n", " ", "f", "r", "e", "e", " ">>}

PriceList == <<<<"$", "0", ".", "9", "9">>, <<"$", "1", "0", ".", "9", "9">>, <<"3">>, <<"$", "4", ".", "9", "9">>, <<"1", "0", ",", "9", "9", " ", "u20AC">>>>

\* How many entries of PriceList the clauses draw from.
MaxPrices == 3

Prices == {PriceList[k] : k \in 1..Min2(MaxPrices, Len(PriceList))}

Trails == {<<>>, <<" ", "/", "m", "o", "n", "t", "h">>}

Clauses == {l \o p \o t : l \in Leads, p \in Prices, t \in Trails}

\* A sentence with no marker, digit or currency token, longer than the window.
Filler == <<" ", "a", "n", "d", " ", "l", "i", "s", "t", "e", "n", " ", "t", "o", " ", "a", "l", "l", " ", "o", "f", " ", "y", "o", "u", "r", " ", "s", "o", "n", "g", "s", " ", "o", "n", " ", "a", "l", "l", " ", "o", "f", " ", "y", "o", "u", "r", " ", "d", "e", "v", "i", "c", "e", "s", " ", "a", "t", " ", "h", "o", "m", "e", " ">>

Gaps == {<<" ">>, Filler}

Examples ==
    {<<"3", " ", "m", "o", "n", "t", "h", "s", " ", "f", "o", "r", " ", "$", "0", ".", "9", "9", ",", " ", "t", "h", "e", "n", " ", "$", "1", "0", ".", "9", "9", "/", "m", "o", "n", "t", "h">>,
     <<"0", " ", "u20AC", " ", "p", "e", "n", "d", "a", "n", "t", " ", "1", " ", "m", "o", "i", "s", ",", " ", "p", "u", "i", "s", " ", "1", "0", ",", "9", "9", " ", "u20AC", "/", "m", "o", "i", "s">>,
     <<"u20B8", "1", " ", "4", "9", "0", ",", "0", "0", " ", "/", " ", "m", "o", "n", "t", "h">>,
     <<"F", "r", "e", "e", " ", "f", "o", "r", " ", "3", " ", "m", "o", "n", "t", "h", "s">>,
     <<"T", "r", "y", " ", "1", " ", "m", "o", "n", "t", "h", " ", "f", "r", "e", "e", " ", "u2014", " ", "$", "5", ".", "4", "9">>,
     <<"$", " ", "8", ".", "5", "0", "0">>,
     <<"8", " ", "$", " ", "5", "0", "0">>}

Texts == Examples \cup Clauses \cup {c \o g \o d : c \in Clauses, g \in Gaps, d \in Clauses}

(***************************************************************************)
(* Territory defaults.  Country and currency codes are texts, like every   *)
(* string of the program.                                                  *)
(***************************************************************************)
\* HARDCODE_FALLBACKS of apple_music_scraper.py, as the pairs <<country, currency>>.
HARDCODE_FALLBACKS ==
    {
     <<<<"U", "S">>, <<"U", "S", "D">>>>, <<<<"C", "A">>, <<"C", "A", "D">>>>, <<<<"M", "X">>, <<"M", "X", "N">>>>,
     <<<<"B", "R">>, <<"B", "R", "L">>>>, <<<<"A", "R">>, <<"A", "R", "S">>>>, <<<<"C", "L">>, <<"C", "L", "P">>>>,
     <<<<"C", "O">>, <<"C", "O", "P">>>>, <<<<"P", "E">>, <<"P", "E", "N">>>>, <<<<"U", "Y">>, <<"U", "Y", "U">>>>,
     <<<<"P", "Y">>, <<"P", "Y", "G">>>>, <<<<"B", "O">>, <<"B", "O", "B">>>>, <<<<"N", "I">>, <<"N", "I", "O">>>>,
     <<<<"G", "T">>, <<"G", "T", "Q">>>>, <<<<"C", "R">>, <<"C", "R", "C">>>>, <<<<"P", "A">>, <<"P", "A", "B">>>>,
     <<<<"H", "N">>, <<"H", "N", "L">>>>, <<<<"D", "O">>, <<"D", "O", "P">>>>, <<<<"J", "M">>, <<"J", "M", "D">>>>,
     <<<<"B", "B">>, <<"B", "B", "D">>>>, <<<<"B", "S">>, <<"B", "S", "D">>>>, <<<<"B", "Z">>, <<"B", "Z", "D">>>>,
     <<<<"E", "C">>, <<"U", "S", "D">>>>, <<<<"S", "V">>, <<"U", "S", "D">>>>, <<<<"P", "R">>, <<"U", "S", "D">>>>,
     <<<<"G", "B">>, <<"G", "B", "P">>>>, <<<<"I", "E">>, <<"E", "U", "R">>>>, <<<<"F", "R">>, <<"E", "U", "R">>>>,
     <<<<"D", "E">>, <<"E", "U", "R">>>>, <<<<"E", "S">>, <<"E", "U", "R">>>>, <<<<"I", "T">>, <<"E", "U", "R">>>>,
     <<<<"P", "T">>, <<"E", "U", "R">>>>, <<<<"N", "L">>, <<"E", "U", "R">>>>, <<<<"B", "E">>, <<"E", "U", "R">>>>,
     <<<<"L", "U">>, <<"E", "U", "R">>>>, <<<<"A", "T">>, <<"E", "U", "R">>>>, <<<<"F", "I">>, <<"E", "U", "R">>>>,
     <<<<"E", "E">>, <<"E", "U", "R">>>>, <<<<"L", "V">>, <<"E", "U", "R">>>>, <<<<"L", "T">>, <<"E", "U", "R">>>>,
     <<<<"S", "K">>, <<"E", "U", "R">>>>, <<<<"S", "I">>, <<"E", "U", "R">>>>, <<<<"G", "R">>, <<"E", "U", "R">>>>,
     <<<<"C", "Y">>, <<"E", "U", "R">>>>, <<<<"M", "T">>, <<"E", "U", "R">>>>, <<<<"B", "G">>, <<"B", "G", "N">>>>,
     <<<<"R", "O">>, <<"R", "O", "N">>>>, <<<<"P", "L">>, <<"P", "L", "N">>>>, <<<<"C", "Z">>, <<"C", "Z", "K">>>>,
     <<<<"H", "U">>, <<"H", "U", "F">>>>, <<<<"H", "R">>, <<"E", "U", "R">>>>, <<<<"D", "K">>, <<"D", "K", "K">>>>,
     <<<<"S", "E">>, <<"S", "E", "K">>>>, <<<<"N", "O">>, <<"N", "O", "K">>>>, <<<<"I", "S">>, <<"I", "S", "K">>>>,
     <<<<"C", "H">>, <<"C", "H", "F">>>>, <<<<"R", "S">>, <<"R", "S", "D">>>>, <<<<"B", "A">>, <<"B", "A", "M">>>>,
     <<<<"M", "K">>, <<"M", "K", "D">>>>, <<<<"A", "L">>, <<"A", "L", "L">>>>, <<<<"U", "A">>, <<"U", "A", "H">>>>,
     <<<<"G", "E">>, <<"G", "E", "L">>>>, <<<<"A", "Z">>, <<"A", "Z", "N">>>>, <<<<"A", "M">>, <<"A", "M", "D">>>>,
     <<<<"K", "Z">>, <<"K", "Z", "T">>>>, <<<<"M", "D">>, <<"M", "D", "L">>>>, <<<<"B", "Y">>, <<"B", "Y", "N">>>>,
     <<<<"T", "R">>, <<"T", "R", "Y">>>>, <<<<"R", "U">>, <<"R", "U", "B">>>>, <<<<"A", "E">>, <<"A", "E", "D">>>>,
     <<<<"S", "A">>, <<"S", "A", "R">>>>, <<<<"Q", "A">>, <<"Q", "A", "R">>>>, <<<<"K", "W">>, <<"K", "W", "D">>>>,
     <<<<"B", "H">>, <<"B", "H", "D">>>>, <<<<"O", "M">>, <<"O", "M", "R">>>>, <<<<"I", "L">>, <<"I", "L", "S">>>>,
     <<<<"E", "G">>, <<"E", "G", "P">>>>, <<<<"M", "A">>, <<"M", "A", "D">>>>, <<<<"T", "N">>, <<"T", "N", "D">>>>,
     <<<<"D", "Z">>, <<"D", "Z", "D">>>>, <<<<"I", "Q">>, <<"I", "Q", "D">>>>, <<<<"Z", "A">>, <<"Z", "A", "R">>>>,
     <<<<"N", "G">>, <<"N", "G", "N">>>>, <<<<"G", "H">>, <<"G", "H", "S">>>>, <<<<"K", "E">>, <<"K", "E", "S">>>>,
     <<<<"T", "Z">>, <<"T", "Z", "S">>>>, <<<<"U", "G">>, <<"U", "G", "X">>>>, <<<<"C", "M">>, <<"X", "A", "F">>>>,
     <<<<"C", "I">>, <<"X", "O", "F">>>>, <<<<"S", "N">>, <<"X", "O", "F">>>>, <<<<"R", "W">>, <<"R", "W", "F">>>>,
     <<<<"B", "I">>, <<"B", "I", "F">>>>, <<<<"C", "D">>, <<"C", "D", "F">>>>, <<<<"B", "J">>, <<"X", "O", "F">>>>,
     <<<<"T", "D">>, <<"X", "A", "F">>>>, <<<<"C", "G">>, <<"X", "A", "F">>>>, <<<<"G", "A">>, <<"X", "A", "F">>>>,
     <<<<"N", "E">>, <<"X", "O", "F">>>>, <<<<"J", "P">>, <<"J", "P", "Y">>>>, <<<<"K", "R">>, <<"K", "R", "W">>>>,
     <<<<"C", "N">>, <<"C", "N", "Y">>>>, <<<<"T", "W">>, <<"T", "W", "D">>>>, <<<<"H", "K">>, <<"H", "K", "D">>>>,
     <<<<"M", "O">>, <<"M", "O", "P">>>>, <<<<"S", "G">>, <<"S", "G", "D">>>>, <<<<"M", "Y">>, <<"M", "Y", "R">>>>,
     <<<<"T", "H">>, <<"T", "H", "B">>>>, <<<<"V", "N">>, <<"V", "N", "D">>>>, <<<<"P", "H">>, <<"P", "H", "P">>>>,
     <<<<"I", "D">>, <<"I", "D", "R">>>>, <<<<"I", "N">>, <<"I", "N", "R">>>>, <<<<"P", "K">>, <<"P", "K", "R">>>>,
     <<<<"L", "K">>, <<"L", "K", "R">>>>, <<<<"N", "P">>, <<"N", "P", "R">>>>, <<<<"B", "D">>, <<"B", "D", "T">>>>,
     <<<<"K", "H">>, <<"U", "S", "D">>>>, <<<<"M", "N">>, <<"M", "N", "T">>>>, <<<<"T", "J">>, <<"T", "J", "S">>>>,
     <<<<"A", "U">>, <<"A", "U", "D">>>>, <<<<"N", "Z">>, <<"N", "Z", "D">>>>, <<<<"K", "I">>, <<"A", "U", "D">>>>,
     <<<<"N", "R">>, <<"A", "U", "D">>>>, <<<<"T", "V">>, <<"A", "U", "D">>>>, <<<<"M", "H">>, <<"U", "S", "D">>>>
    }

\* HARDCODE_FALLBACKS of spotify_scraper.py.
SPOTIFY_HARDCODE_FALLBACKS ==
    {
     <<<<"U", "S">>, <<"U", "S", "D">>>>, <<<<"C", "A">>, <<"C", "A", "D">>>>, <<<<"M", "X">>, <<"M", "X", "N">>>>,
     <<<<"B", "R">>, <<"B", "R", "L">>>>, <<<<"A", "R">>, <<"A", "R", "S">>>>, <<<<"C", "L">>, <<"C", "L", "P">>>>,
     <<<<"C", "O">>, <<"C", "O", "P">>>>, <<<<"P", "E">>, <<"P", "E", "N">>>>, <<<<"U", "Y">>, <<"U", "Y", "U">>>>,
     <<<<"P", "Y">>, <<"P", "Y", "G">>>>, <<<<"B", "O">>, <<"B", "O", "B">>>>, <<<<"N", "I">>, <<"N", "I", "O">>>>,
     <<<<"G", "T">>, <<"G", "T", "Q">>>>, <<<<"C", "R">>, <<"C", "R", "C">>>>, <<<<"P", "A">>, <<"P", "A", "B">>>>,
     <<<<"H", "N">>, <<"H", "N", "L">>>>, <<<<"D", "O">>, <<"D", "O", "P">>>>, <<<<"J", "M">>, <<"J", "M", "D">>>>,
     <<<<"B", "B">>, <<"B", "B", "D">>>>, <<<<"B", "S">>, <<"B", "S", "D">>>>, <<<<"B", "Z">>, <<"B", "Z", "D">>>>,
     <<<<"E", "C">>, <<"U", "S", "D">>>>, <<<<"S", "V">>, <<"U", "S", "D">>>>, <<<<"G", "B">>, <<"G", "B", "P">>>>,
     <<<<"I", "E">>, <<"E", "U", "R">>>>, <<<<"F", "R">>, <<"E", "U", "R">>>>, <<<<"D", "E">>, <<"E", "U", "R">>>>,
     <<<<"E", "S">>, <<"E", "U", "R">>>>, <<<<"I", "T">>, <<"E", "U", "R">>>>, <<<<"P", "T">>, <<"E", "U", "R">>>>,
     <<<<"N", "L">>, <<"E", "U", "R">>>>, <<<<"B", "E">>, <<"E", "U", "R">>>>, <<<<"L", "U">>, <<"E", "U", "R">>>>,
     <<<<"A", "T">>, <<"E", "U", "R">>>>, <<<<"F", "I">>, <<"E", "U", "R">>>>, <<<<"E", "E">>, <<"E", "U", "R">>>>,
     <<<<"L", "V">>, <<"E", "U", "R">>>>, <<<<"L", "T">>, <<"E", "U", "R">>>>, <<<<"S", "K">>, <<"E", "U", "R">>>>,
     <<<<"S", "I">>, <<"E", "U", "R">>>>, <<<<"G", "R">>, <<"E", "U", "R">>>>, <<<<"C", "Y">>, <<"E", "U", "R">>>>,
     <<<<"M", "T">>, <<"E", "U", "R">>>>, <<<<"B", "G">>, <<"B", "G", "N">>>>, <<<<"R", "O">>, <<"R", "O", "N">>>>,
     <<<<"P", "L">>, <<"P", "L", "N">>>>, <<<<"C", "Z">>, <<"C", "Z", "K">>>>, <<<<"H", "U">>, <<"H", "U", "F">>>>,
     <<<<"H", "R">>, <<"E", "U", "R">>>>, <<<<"D", "K">>, <<"D", "K", "K">>>>, <<<<"S", "E">>, <<"S", "E", "K">>>>,
     <<<<"N", "O">>, <<"N", "O", "K">>>>, <<<<"I", "S">>, <<"I", "S", "K">>>>, <<<<"C", "H">>, <<"C", "H", "F">>>>,
     <<<<"R", "S">>, <<"R", "S", "D">>>>, <<<<"B", "A">>, <<"B", "A", "M">>>>, <<<<"M", "K">>, <<"M", "K", "D">>>>,
     <<<<"A", "L">>, <<"A", "L", "L">>>>, <<<<"U", "A">>, <<"U", "A", "H">>>>, <<<<"G", "E">>, <<"G", "E", "L">>>>,
     <<<<"A", "Z">>, <<"A", "Z", "N">>>>, <<<<"A", "M">>, <<"A", "M", "D">>>>, <<<<"K", "Z">>, <<"K", "Z", "T">>>>,
     <<<<"M", "D">>, <<"M", "D", "L">>>>, <<<<"B", "Y">>, <<"B", "Y", "N">>>>, <<<<"T", "R">>, <<"T", "R", "Y">>>>,
     <<<<"A", "E">>, <<"A", "E", "D">>>>, <<<<"S", "A">>, <<"S", "A", "R">>>>, <<<<"Q", "A">>, <<"Q", "A", "R">>>>,
     <<<<"K", "W">>, <<"K", "W", "D">>>>, <<<<"B", "H">>, <<"B", "H", "D">>>>, <<<<"O", "M">>, <<"O", "M", "R">>>>,
     <<<<"I", "L">>, <<"I", "L", "S">>>>, <<<<"E", "G">>, <<"E", "G", "P">>>>, <<<<"M", "A">>, <<"M", "A", "D">>>>,
     <<<<"T", "N">>, <<"T", "N", "D">>>>, <<<<"D", "Z">>, <<"D", "Z", "D">>>>, <<<<"I", "Q">>, <<"I", "Q", "D">>>>,
     <<<<"Z", "A">>, <<"Z", "A", "R">>>>, <<<<"N", "G">>, <<"N", "G", "N">>>>, <<<<"G", "H">>, <<"G", "H", "S">>>>,
     <<<<"K", "E">>, <<"K", "E", "S">>>>, <<<<"T", "Z">>, <<"T", "Z", "S">>>>, <<<<"U", "G">>, <<"U", "G", "X">>>>,
     <<<<"C", "M">>, <<"X", "A", "F">>>>, <<<<"C", "I">>, <<"X", "O", "F">>>>, <<<<"S", "N">>, <<"X", "O", "F">>>>,
     <<<<"R", "W">>, <<"R", "W", "F">>>>, <<<<"B", "I">>, <<"B", "I", "F">>>>, <<<<"C", "D">>, <<"C", "D", "F">>>>,
     <<<<"J", "P">>, <<"J", "P", "Y">>>>, <<<<"K", "R">>, <<"K", "R", "W">>>>, <<<<"C", "N">>, <<"C", "N", "Y">>>>,
     <<<<"T", "W">>, <<"T", "W", "D">>>>, <<<<"H", "K">>, <<"H", "K", "D">>>>, <<<<"S", "G">>, <<"S", "G", "D">>>>,
     <<<<"M", "Y">>, <<"M", "Y", "R">>>>, <<<<"T", "H">>, <<"T", "H", "B">>>>, <<<<"V", "N">>, <<"V", "N", "D">>>>,
     <<<<"P", "H">>, <<"P", "H", "P">>>>, <<<<"I", "D">>, <<"I", "D", "R">>>>, <<<<"I", "N">>, <<"I", "N", "R">>>>,
     <<<<"P", "K">>, <<"P", "K", "R">>>>, <<<<"L", "K">>, <<"L", "K", "R">>>>, <<<<"N", "P">>, <<"N", "P", "R">>>>,
     <<<<"B", "D">>, <<"B", "D", "T">>>>, <<<<"A", "U">>, <<"A", "U", "D">>>>, <<<<"N", "Z">>, <<"N", "Z", "D">>>>,
     <<<<"K", "I">>, <<"A", "U", "D">>>>, <<<<"N", "R">>, <<"A", "U", "D">>>>, <<<<"T", "V">>, <<"A", "U", "D">>>>,
     <<<<"M", "H">>, <<"U", "S", "D">>>>
    }

\* `key in table` and `table[key]` of a dict given as its set of pairs.
HasKey(tbl, key) == \E p \in tbl : p[1] = key

Lookup(tbl, key) == (CHOOSE p \in tbl : p[1] = key)[2]

\* KNOWN_ISO = set(HARDCODE_FALLBACKS.values())
KNOWN_ISO == {p[2] : p \in HARDCODE_FALLBACKS}

\* KNOWN_ISO of spotify_scraper.py: the values of its table and the codes it
\* lists beside them.
SPOTIFY_KNOWN_ISO ==
    {p[2] : p \in SPOTIFY_HARDCODE_FALLBACKS} \cup
    {
     <<"A", "F", "N">>, <<"A", "O", "A">>, <<"G", "I", "P">>, <<"G", "M", "D">>, <<"K", "H", "R">>, <<"L", "A", "K">>,
     <<"L", "R", "D">>, <<"M", "M", "K">>, <<"M", "N", "T">>, <<"M", "Z", "N">>, <<"N", "A", "D">>, <<"S", "L", "L">>,
     <<"T", "J", "S">>, <<"T", "M", "T">>, <<"X", "P", "F">>
    }


\* What get_territory_currencies answers for the territory asked about: ok is
\* FALSE when the call raises, currs is the list it returns otherwise.
BabelAnswer(ok, currs) == [ok |-> ok, currs |-> currs]

\* apple_music_scraper.py, default_currency_for_alpha2: the table first, the
\* locale data only for a country the table does not list.
default_currency_for_alpha2(alpha2, bab) ==
    LET Of(iso2, table) ==
            IF HasKey(table, iso2) THEN Lookup(table, iso2)
            ELSE IF bab.ok /\ bab.currs # <<>> THEN bab.currs[1]
            ELSE <<>>
    IN  Of(Upper(alpha2), HARDCODE_FALLBACKS)

\* spotify_scraper.py, default_currency_for_alpha2: the locale data first, the
\* table when the locale data raises or answers nothing.
spotify_default_currency_for_alpha2(alpha2, bab) ==
    LET Of(iso2, table) ==
            IF bab.ok /\ bab.currs # <<>> THEN bab.currs[1]
            ELSE IF HasKey(table, iso2) THEN Lookup(table, iso2)
            ELSE <<>>
    IN  Of(Upper(alpha2), SPOTIFY_HARDCODE_FALLBACKS)

(***************************************************************************)
(* Currency detection (apple_music_scraper.py)                             *)
(***************************************************************************)
\* SINGLE_SYMBOL_TO_ISO, in the order of the dict.
SINGLE_SYMBOL_TO_ISO ==
    <<<<"u20A9", <<"K", "R", "W">>>>, <<"u20AB", <<"V", "N", "D">>>>, <<"u20BA", <<"T", "R", "Y">>>>,
      <<"u20AA", <<"I", "L", "S">>>>, <<"u20B4", <<"U", "A", "H">>>>, <<"u20BC", <<"A", "Z", "N">>>>,
      <<"u20BE", <<"G", "E", "L">>>>, <<"u20AD", <<"L", "A", "K">>>>, <<"u0E3F", <<"T", "H", "B">>>>,
      <<"u20A6", <<"N", "G", "N">>>>, <<"u20B5", <<"G", "H", "S">>>>, <<"u20B1", <<"P", "H", "P">>>>,
      <<"u20B8", <<"K", "Z", "T">>>>, <<"uFFE5", <<"J", "P", "Y">>>>>>

\* The yen sign and the full-width yen sign.
YenSigns == {"u00A5", "uFFE5"}

\* The patterns that are the keys of AMBIG_TOKENS.
AMBIG_TOKENS ==
    <<Row(Str(<<"$">>), FALSE, <<>>),
      Row(Cat(<<WB, Str(<<"k", "r">>), Opt(Str(<<".">>)), WB>>), FALSE, <<>>),
      Row(Cat(<<WB, Str(<<"R", "s">>), Opt(Str(<<".">>)), WB>>), FALSE, <<>>),
      Row(Str(<<"u20A8">>), FALSE, <<>>),
      Row(Cat(<<WB, Str(<<"c", "$">>), WB>>), TRUE, <<>>)>>

DOLLAR_CURRENCIES ==
    {<<"U", "S", "D">>, <<"C", "A", "D">>, <<"A", "U", "D">>, <<"N", "Z", "D">>, <<"S", "G", "D">>, <<"H", "K", "D">>, <<"T", "W", "D">>, <<"M", "X", "N">>,
     <<"A", "R", "S">>, <<"C", "L", "P">>, <<"C", "O", "P">>, <<"U", "Y", "U">>, <<"B", "B", "D">>, <<"B", "S", "D">>, <<"D", "O", "P">>, <<"C", "R", "C">>,
     <<"P", "A", "B">>, <<"H", "N", "L">>, <<"J", "M", "D">>}

\* What a detection returns: the ISO code, the source label, and the raw token
\* (empty for the detections that return a pair).
Detected(iso, src, raw) == [iso |-> iso, src |-> src, raw |-> raw]

\* `sym in s` for a one-character sym.
In(sym, s) == \E k \in 1..Len(s) : s[k] = sym

\* The index of the first row of a table that re.search finds in s, 0 if none.
FirstRow(tbl, s) ==
    LET First(hits) == IF hits = {} THEN 0 ELSE CHOOSE n \in hits : \A k \in hits : n <= k
    IN  First({n \in 1..Len(tbl) : RowSearch(tbl[n], s) # <<>>})

\* The index of the first entry of SINGLE_SYMBOL_TO_ISO whose symbol is in s.
FirstSymbol(s) ==
    LET First(hits) == IF hits = {} THEN 0 ELSE CHOOSE n \in hits : \A k \in hits : n <= k
        Among(tbl) == First({n \in 1..Len(tbl) : In(tbl[n][1], s)})
    IN  Among(SINGLE_SYMBOL_TO_ISO)

\* re.search(r"[A-Z]{3}", s, re.I): three letters in a row; under re.I the
\* class takes the dotless i too.
ThreeLetters == Rep(Cls(UpperLetters \cup LowerLetters \cup {"u0131"}), 3, 3)

\* "CNY" if cc == "CN" else "JPY" if cc == "JP" else default_currency_for_alpha2(cc)
YenIso(alpha2, bab) ==
    LET Of(cc) ==
            IF cc = <<"C", "N">> THEN <<"C", "N", "Y">>
            ELSE IF cc = <<"J", "P">> THEN <<"J", "P", "Y">>
            ELSE default_currency_for_alpha2(cc, bab)
    IN  Of(Upper(alpha2))

\* re.finditer(r"\b([A-Z]{3})\b", S)
IsoWords(S) == FindIter(Cat(<<WB, ThreeUpper, WB>>), S)

\* window = S[max(0, a - 6) : min(len(S), b + 6)] has a digit, for the match m.
DigitNear(S, m) ==
    LET Window(a, b) == Slice(S, Max2(0, a - 6), Min2(Len(S), b + 6))
    IN  Found(Digit, Window(m[1] - 1, m[2] - 1))

\* The first word of three capitals of S that is a known code, is not in skip
\* and, when near is asked for, has a digit in its window; <<>> if none.
FirstCode(S, known, skip, near) ==
    LET First(ms, hits) ==
            IF hits = {} THEN <<>>
            ELSE Group(S, ms[CHOOSE n \in hits : \A k \in hits : n <= k])
        Among(ms) ==
            First(ms, {n \in 1..Len(ms) : (Group(S, ms[n]) \notin skip)
                                          /\ (Group(S, ms[n]) \in known)
                                          /\ (near => DigitNear(S, ms[n]))})
    IN  Among(IsoWords(S))

\* detect_currency_in_text with the scan for ISO codes before the strong tokens.
detect_currency_code_first(full_text, alpha2, bab) ==
    LET Steps(s, strong, single, row, sym, code, yen, dflt) ==
            IF s = <<>> THEN Detected(<<>>, "territory_default", <<>>)
            ELSE IF code # <<>> THEN Detected(code, "code", <<>>)
            ELSE IF row # 0 THEN Detected(strong[row].iso, "symbol", <<>>)
            ELSE IF (\E y \in YenSigns : In(y, s)) /\ ~Found(ThreeLetters, s)
                 THEN Detected(yen, "symbol", <<>>)
            ELSE IF sym # 0
                 THEN IF single[sym][1] \in YenSigns
                      THEN Detected(yen, "symbol", <<>>)
                      ELSE Detected(single[sym][2], "symbol", <<>>)
            ELSE IF FirstRow(AMBIG_TOKENS, s) # 0
                 THEN Detected(dflt, "ambiguous->default", <<>>)
            ELSE Detected(dflt, "territory_default", <<>>)
        Cleaned(s) ==
            Steps(s, STRONG_TOKENS, SINGLE_SYMBOL_TO_ISO,
                  FirstRow(STRONG_TOKENS, s), FirstSymbol(s),
                  FirstCode(Upper(s), KNOWN_ISO, {<<"T", "R", "Y">>}, TRUE),
                  YenIso(alpha2, bab), default_currency_for_alpha2(alpha2, bab))
    IN  Cleaned(_clean(full_text))
detect_currency_in_text(full_text, alpha2, bab) ==
    LET Steps(s, strong, single, row, sym, code, yen, dflt) ==
            IF s = <<>> THEN Detected(<<>>, "territory_default", <<>>)
            \* 1) strong tokens
            ELSE IF row # 0 THEN Detected(strong[row].iso, "symbol", <<>>)
            \* 2) yen sign
            ELSE IF (\E y \in YenSigns : In(y, s)) /\ ~Found(ThreeLetters, s)
                 THEN Detected(yen, "symbol", <<>>)
            \* 3) single symbols
            ELSE IF sym # 0
                 THEN IF single[sym][1] \in YenSigns
                      THEN Detected(yen, "symbol", <<>>)
                      ELSE Detected(single[sym][2], "symbol", <<>>)
            \* 4) ISO codes near a digit, never TRY
            ELSE IF code # <<>> THEN Detected(code, "code", <<>>)
            \* 5) ambiguous tokens, 6) the territory default
            ELSE IF FirstRow(AMBIG_TOKENS, s) # 0
                 THEN Detected(dflt, "ambiguous->default", <<>>)
            ELSE Detected(dflt, "territory_default", <<>>)
        Cleaned(s) ==
            Steps(s, STRONG_TOKENS, SINGLE_SYMBOL_TO_ISO,
                  FirstRow(STRONG_TOKENS, s), FirstSymbol(s),
                  FirstCode(Upper(s), KNOWN_ISO, {<<"T", "R", "Y">>}, TRUE),
                  YenIso(alpha2, bab), default_currency_for_alpha2(alpha2, bab))
    IN  Cleaned(_clean(full_text))

\* (^|[^A-Z])\$(?=\s*\d)
DisplayDollar ==
    Cat(<<Alt(<<Bol, NotCls(UpperLetters)>>), Str(<<"$">>), Ahead(Cat(<<Sp0, Digit>>))>>)

detect_currency_from_display(display_text, alpha2, bab) ==
    LET Steps(s, strong, single, row, sym, code, yen, dflt) ==
            IF s = <<>> THEN Detected(<<>>, "empty", <<>>)
            ELSE IF row # 0
                 THEN Detected(strong[row].iso, "symbol", Group(s, RowSearch(strong[row], s)))
            ELSE IF (\E y \in YenSigns : In(y, s)) /\ ~Found(ThreeLetters, s)
                 THEN Detected(yen, "symbol",
                               IF In("u00A5", s) THEN <<"u00A5">> ELSE <<"uFFE5">>)
            ELSE IF sym # 0
                 THEN IF single[sym][1] \in YenSigns
                      THEN Detected(yen, "symbol", <<single[sym][1]>>)
                      ELSE Detected(single[sym][2], "symbol", <<single[sym][1]>>)
            ELSE IF code # <<>> THEN Detected(code, "code", code)
            ELSE IF Found(DisplayDollar, s)
                 THEN Detected(dflt, "ambiguous_symbol->default", <<"$">>)
            ELSE IF Found(Cat(<<WB, Str(<<"k", "r">>), WB>>), Lower(s))
                 THEN Detected(dflt, "ambiguous_symbol->default", <<"k", "r">>)
            ELSE IF Found(Cat(<<WB, Str(<<"R", "s">>), WB>>), s)
                 THEN Detected(dflt, "ambiguous_symbol->default", <<"R", "s">>)
            ELSE IF In("u20A8", s)
                 THEN Detected(dflt, "ambiguous_symbol->default", <<"u20A8">>)
            ELSE Detected(dflt, "territory_default", <<>>)
        Cleaned(s) ==
            Steps(s, STRONG_TOKENS, SINGLE_SYMBOL_TO_ISO,
                  FirstRow(STRONG_TOKENS, s), FirstSymbol(s),
                  FirstCode(Upper(s), KNOWN_ISO, {<<"T", "R", "Y">>}, FALSE),
                  YenIso(alpha2, bab), default_currency_for_alpha2(alpha2, bab))
    IN  Cleaned(_clean(display_text))

\* SmallDollar: the amount up to which a bare $ is read as US dollars.
SmallDollar == 50

\* (?i)\bUS\$|\$US|\bUSD\b
UsdMarker ==
    Alt(<<Cat(<<WB, Str(<<"u", "s", "$">>)>>), Str(<<"$", "u", "s">>), Cat(<<WB, Str(<<"u", "s", "d">>), WB>>)>>)

\* The countries resolve_dollar_ambiguity reads a bare $ as US dollars for.
GccCountries == {<<"K", "W">>, <<"Q", "A">>, <<"B", "H">>, <<"O", "M">>}

\* What resolve_dollar_ambiguity returns; why is "" for None.
Resolved(iso, why) == [iso |-> iso, why |-> why]

\* resolve_dollar_ambiguity without the test of the country's default currency.
resolve_dollar_any_default(iso_guess, raw_token, amount, alpha2, context_text, bab) ==
    IF raw_token # <<"$">> THEN Resolved(iso_guess, "")
    ELSE IF Found(UsdMarker, Lower(context_text)) THEN Resolved(<<"U", "S", "D">>, "context-usd")
    ELSE IF alpha2 \in GccCountries THEN Resolved(<<"U", "S", "D">>, "gcc-usd")
    ELSE IF amount <= SmallDollar * 100 THEN Resolved(<<"U", "S", "D">>, "small-$-usd")
    ELSE Resolved(iso_guess, "")
\* amount is in hundredths.
resolve_dollar_ambiguity(iso_guess, raw_token, amount, alpha2, context_text, bab) ==
    IF raw_token # <<"$">> THEN Resolved(iso_guess, "")
    ELSE IF default_currency_for_alpha2(alpha2, bab) \in DOLLAR_CURRENCIES
         THEN Resolved(iso_guess, "")
    ELSE IF Found(UsdMarker, Lower(context_text)) THEN Resolved(<<"U", "S", "D">>, "context-usd")
    ELSE IF alpha2 \in GccCountries THEN Resolved(<<"U", "S", "D">>, "gcc-usd")
    ELSE IF amount <= SmallDollar * 100 THEN Resolved(<<"U", "S", "D">>, "small-$-usd")
    ELSE Resolved(iso_guess, "")

\* token_val if it is a token, else the first non-None pick_best_price_token
\* over the raw texts of the candidate price nodes, None if there is none.
RECURSIVE OrFirstPick(_, _)
OrFirstPick(token_val, raws) ==
    IF token_val # None \/ raws = <<>> THEN token_val
    ELSE OrFirstPick(pick_best_price_token(Head(raws)), Tail(raws))

\* extract_plan_entries_from_dom_apple, the token of one card: the full text
\* first, the candidate price nodes when the full text gives nothing.
CardToken(full_text, raws) == OrFirstPick(pick_best_price_token(full_text), raws)

\* f"context-{src2}" and f"heuristic-{why}"
ContextSrc(src2) == IF src2 = "symbol" THEN "context-symbol" ELSE "context-code"

HeuristicSrc(why) ==
    CASE why = "context-usd" -> "heuristic-context-usd"
      [] why = "gcc-usd" -> "heuristic-gcc-usd"
      [] why = "small-$-usd" -> "heuristic-small-$-usd"

\* extract_plan_entries_from_dom_apple, the currency of one card's entry, from
\* the chosen token: the currency, its source and raw token, with the guess
\* handed to resolve_dollar_ambiguity and its reason (guess is the display's
\* detection and why is "" when it is not called).
CardCurrency(chosen_tok, chosen_val, full_text, alpha2, bab) ==
    LET Entry(disp, g, res) ==
            IF disp.src \notin {"ambiguous_symbol->default", "territory_default"}
            THEN [out |-> disp, guess |-> disp, why |-> ""]
            ELSE IF res.why # ""
                 THEN [out |-> Detected(res.iso, HeuristicSrc(res.why), disp.raw),
                       guess |-> g, why |-> res.why]
            ELSE [out |-> g, guess |-> g, why |-> ""]
        Guessed(disp, g) ==
            Entry(disp, g, resolve_dollar_ambiguity(g.iso, disp.raw, chosen_val, alpha2,
                                                    full_text, bab))
        Both(disp, ctx) ==
            Guessed(disp, IF ctx.src \in {"symbol", "code"} /\ ctx.iso # <<>>
                          THEN Detected(ctx.iso, ContextSrc(ctx.src), disp.raw)
                          ELSE disp)
    IN  Both(detect_currency_from_display(chosen_tok, alpha2, bab),
             detect_currency_in_text(full_text, alpha2, bab))

(***************************************************************************)
(* Currency detection (spotify_scraper.py)                                 *)
(***************************************************************************)
SPOTIFY_STRONG_TOKENS ==
    <<Row(Str(<<"u", "s", "$">>), TRUE, <<"U", "S", "D">>),
      Row(Str(<<"$", "u", "s">>), TRUE, <<"U", "S", "D">>),
      Row(Str(<<"u", "$", "s">>), TRUE, <<"U", "S", "D">>),
      Row(Cat(<<WB, Str(<<"a", "$">>)>>), TRUE, <<"A", "U", "D">>),
      Row(Cat(<<WB, Str(<<"n", "z", "$">>)>>), TRUE, <<"N", "Z", "D">>),
      Row(Cat(<<WB, Str(<<"h", "k", "$">>)>>), TRUE, <<"H", "K", "D">>),
      Row(Cat(<<WB, Str(<<"n", "t", "$">>)>>), TRUE, <<"T", "W", "D">>),
      Row(Cat(<<WB, Str(<<"s", "$">>)>>), TRUE, <<"S", "G", "D">>),
      Row(Cat(<<WB, Str(<<"r", "d", "$">>)>>), TRUE, <<"D", "O", "P">>),
      Row(Cat(<<WB, Str(<<"n", "$">>)>>), TRUE, <<"N", "A", "D">>),
      Row(Str(<<"R", "$">>), FALSE, <<"B", "R", "L">>),
      Row(Str(<<"S", "/", ".">>), FALSE, <<"P", "E", "N">>),
      Row(Str(<<"S", "/">>), FALSE, <<"P", "E", "N">>),
      Row(Cat(<<Str(<<"B", "s">>), Opt(Str(<<".">>))>>), FALSE, <<"B", "O", "B">>),
      Row(Cat(<<Str(<<"G", "s">>), Opt(Str(<<".">>))>>), FALSE, <<"P", "Y", "G">>),
      Row(Str(<<"u20B2">>), FALSE, <<"P", "Y", "G">>),
      Row(Cat(<<Str(<<"Q">>), Ahead(Cls(SpaceChars \cup Digits))>>), FALSE, <<"G", "T", "Q">>),
      Row(Str(<<"u20AC">>), FALSE, <<"E", "U", "R">>),
      Row(Str(<<"u00A3">>), FALSE, <<"G", "B", "P">>),
      Row(Str(<<"u00A5">>), FALSE, <<"J", "P", "Y">>),
      Row(Str(<<"u20B9">>), FALSE, <<"I", "N", "R">>),
      Row(Str(<<"u20A9">>), FALSE, <<"K", "R", "W">>),
      Row(Str(<<"u20AB">>), FALSE, <<"V", "N", "D">>),
      Row(Str(<<"u20BA">>), FALSE, <<"T", "R", "Y">>),
      Row(Str(<<"u20AA">>), FALSE, <<"I", "L", "S">>),
      Row(Str(<<"u20B4">>), FALSE, <<"U", "A", "H">>),
      Row(Str(<<"u20BC">>), FALSE, <<"A", "Z", "N">>),
      Row(Str(<<"u20BE">>), FALSE, <<"G", "E", "L">>),
      Row(Str(<<"u20AD">>), FALSE, <<"L", "A", "K">>),
      Row(Str(<<"u0E3F">>), FALSE, <<"T", "H", "B">>),
      Row(Str(<<"u20A6">>), FALSE, <<"N", "G", "N">>),
      Row(Str(<<"u20B5">>), FALSE, <<"G", "H", "S">>),
      Row(Str(<<"K", "S", "h">>), FALSE, <<"K", "E", "S">>),
      Row(Str(<<"T", "S", "h">>), FALSE, <<"T", "Z", "S">>),
      Row(Str(<<"U", "S", "h">>), FALSE, <<"U", "G", "X">>),
      Row(Str(<<"R", "p">>), FALSE, <<"I", "D", "R">>),
      Row(Str(<<"z", "u0142">>), FALSE, <<"P", "L", "N">>),
      Row(Str(<<"K", "u010D">>), FALSE, <<"C", "Z", "K">>),
      Row(Str(<<"F", "t">>), FALSE, <<"H", "U", "F">>),
      Row(Str(<<"l", "e", "i">>), FALSE, <<"R", "O", "N">>),
      Row(Str(<<"u043B", "u0432">>), FALSE, <<"B", "G", "N">>),
      Row(Str(<<"u0434", "u0435", "u043D">>), FALSE, <<"M", "K", "D">>),
      Row(Str(<<"R", "M">>), FALSE, <<"M", "Y", "R">>),
      Row(Str(<<"u20B1">>), FALSE, <<"P", "H", "P">>)>>

SPOTIFY_AMBIG_TOKENS ==
    AMBIG_TOKENS \o
    <<Row(Cat(<<WB, Str(<<"R">>), Ahead(Cls(SpaceChars \cup Digits))>>), FALSE, <<>>)>>

\* _clean_spaces(s) = (s or "").replace("\xa0", " ").strip()
_clean_spaces(s) == Strip([k \in 1..Len(s) |-> IF s[k] = "u00A0" THEN " " ELSE s[k]])

spotify_detect_currency_in_text(line, alpha2, bab) ==
    LET Steps(s, strong, row, code, dflt) ==
            IF s = <<>> THEN Detected(<<>>, "territory_default", <<>>)
            ELSE IF row # 0 THEN Detected(strong[row].iso, "symbol", <<>>)
            ELSE IF code # <<>> THEN Detected(code, "code", <<>>)
            ELSE IF FirstRow(SPOTIFY_AMBIG_TOKENS, s) # 0
                 THEN Detected(dflt, "ambiguous->default", <<>>)
            ELSE Detected(dflt, "territory_default", <<>>)
        Cleaned(s) ==
            Steps(s, SPOTIFY_STRONG_TOKENS, FirstRow(SPOTIFY_STRONG_TOKENS, s),
                  FirstCode(Upper(s), SPOTIFY_KNOWN_ISO, {}, TRUE),
                  spotify_default_currency_for_alpha2(alpha2, bab))
    IN  Cleaned(_clean_spaces(line))

(***************************************************************************)
(* One country (apple_music_scraper.py, scrape_country)                    *)
(***************************************************************************)
TIER_ORDER == <<"Student", "Individual", "Family">>

\* REGION_LOCALE_PATHS.get(cc, [cc.lower()]): the number of paths tried.
PathCount(cc) ==
    IF cc \in {<<"H", "K">>, <<"M", "O">>} THEN 6 ELSE IF cc = <<"G", "B">> THEN 2 ELSE 1

\* normalize_country_name(get_country_name_from_code(cc)), then
\* MANUAL_COUNTRY_FIXES: the names pycountry has for the codes of the model.
CountryName(cc) ==
    CASE cc = <<"C", "H">> -> <<"S", "w", "i", "t", "z", "e", "r", "l", "a", "n", "d">>
      [] cc = <<"D", "E">> -> <<"G", "e", "r", "m", "a", "n", "y">>
      [] cc = <<"G", "B">> -> <<"U", "n", "i", "t", "e", "d", " ", "K", "i", "n", "g", "d", "o", "m">>
      [] cc = <<"U", "S">> -> <<"U", "n", "i", "t", "e", "d", " ", "S", "t", "a", "t", "e", "s">>
      [] OTHER -> cc

_storefront_equivalent(requested_cc, detected_cc) ==
    IF detected_cc = <<>> THEN FALSE
    ELSE IF Upper(requested_cc) = Upper(detected_cc) THEN TRUE
    ELSE Upper(requested_cc) = <<"G", "B">> /\ Upper(detected_cc) = <<"U", "K">>

\* What the music.apple.com banner answers to one scrape_country call:
\* raises when _get_music_banner_text_async raises an exception that is no
\* RuntimeError; store is _extract_cc(final_url), <<>> for none; val is the
\* value _extract_price_from_banner_text finds in its text, NoNum for None;
\* cur the currency detected for it.
BannerAnswer(raises, store, val, cur) ==
    [raises |-> raises, store |-> store, val |-> val, cur |-> cur]

\* One plan entry and one row of the result.
Entry(val, cur) == [val |-> val, cur |-> cur]

\* The keys "Redirected" and "Has Apple Music Page" of a row, which the
\* callers of banner_individual_row pass as meta.
Meta(redirected, has_page) ==
    [Redirected |-> redirected, Has_Apple_Music_Page |-> has_page]

PlanRow(country, code, plan, e, source, meta) ==
    [Country |-> country, Code |-> code, Plan |-> plan,
     Currency |-> e.cur, Value |-> e.val, Source |-> source,
     Redirected |-> meta.Redirected,
     Has_Apple_Music_Page |-> meta.Has_Apple_Music_Page]

\* The arguments of one log_missing call; the time is stamped when it is made.
Missing(country, code, url, reason) ==
    [country |-> country, country_code |-> code, url |-> url, reason |-> reason]

\* What a call does: the rows it returns, the log_missing calls it made, and
\* whether it raised instead of returning; fetched counts the calls of
\* fetch_banner_individual_price.
Did(rows, logs, raised, fetched) ==
    [rows |-> rows, logs |-> logs, raised |-> raised, fetched |-> fetched]

\* The value that stands for None where a banner dict is expected.
NoBanner == Entry(NoNum, <<>>)

\* fetch_banner_individual_price(alpha2): the dict, NoBanner for None; the
\* caller sees ban.raises itself.
fetch_banner_individual_price(alpha2, ban) ==
    IF ban.store = <<>> \/ ban.store # Upper(alpha2) THEN NoBanner
    ELSE IF ban.val = NoNum THEN NoBanner
    ELSE Entry(ban.val, ban.cur)

banner_individual_row_null_price(alpha2, country_name, ban, meta) ==
    IF ban.raises THEN Did(<<>>, <<>>, TRUE, 0)
    ELSE IF ban.store = <<>> \/ ban.store # Upper(alpha2)
         THEN Did(<<>>, <<Missing(country_name, alpha2, "music.apple.com",
                                  "storefront mismatch")>>, FALSE, 0)
    ELSE Did(<<PlanRow(country_name, alpha2, "Individual", Entry(ban.val, ban.cur),
                       "music.apple.com banner (fallback)", meta)>>, <<>>, FALSE, 0)

banner_individual_row(alpha2, country_name, ban, meta) ==
    IF ban.raises THEN Did(<<>>, <<>>, TRUE, 0)
    ELSE IF ban.store = <<>> \/ ban.store # Upper(alpha2)
         THEN Did(<<>>, <<Missing(country_name, alpha2, "music.apple.com",
                                  "storefront mismatch")>>, FALSE, 0)
    ELSE IF ban.val = NoNum THEN Did(<<>>, <<>>, FALSE, 0)
    ELSE Did(<<PlanRow(country_name, alpha2, "Individual", Entry(ban.val, ban.cur),
                       "music.apple.com banner (fallback)", meta)>>, <<>>, FALSE, 0)

\* What SESSION.get answers for one path and what the page holds: raises for
\* an exception of the request, hub_url for looks_like_us_hub_url(resp.url),
\* final_cc for _extract_cc(resp.url), ok200 for the status code 200, hub_html
\* for looks_like_us_hub_html, entries for extract_plan_entries_from_dom (a
\* function from plan names to entries) and us_content for
\* looks_like_us_content.
PageAnswer(raises, hub_url, final_cc, ok200, hub_html, entries, us_content) ==
    [raises |-> raises, hub_url |-> hub_url, final_cc |-> final_cc, ok200 |-> ok200,
     hub_html |-> hub_html, entries |-> entries, us_content |-> us_content]

\* The Individual price below which it is taken for a promotion, in units of
\* the currency.
SanityFloor == 10

\* The local `suspicious` of scrape_country.
Suspicious(entries) ==
    /\ "Individual" \in DOMAIN entries
    /\ \/ /\ "Student" \in DOMAIN entries
          /\ entries["Student"].val # NoNum
          /\ entries["Individual"].val # NoNum
          /\ entries["Individual"].val < entries["Student"].val
       \/ /\ entries["Individual"].val # NoNum
          /\ entries["Individual"].val < SanityFloor * 100

\* entries["Individual"].update(banner) when the banner is no None.
Overridden(entries, banner) ==
    IF banner = NoBanner THEN entries
    ELSE [entries EXCEPT !["Individual"] = banner]

\* The rows of the tiers of TIER_ORDER that entries holds, in that order.
TierRows(country_name, code, entries) ==
    LET Kept(tiers) ==
            [n \in 1..Len(tiers) |->
                PlanRow(country_name, code, tiers[n], entries[tiers[n]], "apple.com page",
                        Meta(FALSE, TRUE))]
    IN  Kept(SelectSeq(TIER_ORDER, LAMBDA std : std \in DOMAIN entries))

RECURSIVE ScrapePath(_, _, _, _, _, _)
\* The loop of scrape_country over the paths from path k on, and what follows
\* it; pages[k] is the answer for path k, fetched the number of calls of
\* fetch_banner_individual_price so far, and had the local had_apple_page (a
\* page that answers 200 is taken to be of apple.com).
ScrapePath(cc, pages, k, ban, fetched, had) ==
    LET cn == CountryName(cc)
        WithFetched(d, n) == Did(d.rows, d.logs, d.raised, n)
        \* except Exception: continue
        InTry(d, n) ==
            IF d.raised THEN ScrapePath(cc, pages, k + 1, ban, n, had \/ pages[k].ok200)
            ELSE WithFetched(d, n)
        Banner(n, meta) == InTry(banner_individual_row(cc, cn, ban, meta), n)
        Redirect == Meta(TRUE, FALSE)
        Emit(entries, n) ==
            IF cc # <<"U", "S">> /\ DOMAIN entries = {} /\ pages[k].us_content
            THEN Banner(n, Redirect)
            ELSE IF TierRows(cn, cc, entries) # <<>>
                 THEN Did(TierRows(cn, cc, entries), <<>>, FALSE, n)
            ELSE Banner(n, Meta(FALSE, TRUE))
        Page(p) ==
            IF p.raises THEN ScrapePath(cc, pages, k + 1, ban, fetched, had)
            ELSE IF cc # <<"U", "S">> /\ p.hub_url THEN Banner(fetched, Redirect)
            ELSE IF p.final_cc # <<>> /\ ~_storefront_equivalent(cc, p.final_cc)
                 THEN Banner(fetched, Redirect)
            ELSE IF ~p.ok200 THEN ScrapePath(cc, pages, k + 1, ban, fetched, had)
            ELSE IF cc # <<"U", "S">> /\ p.hub_html THEN Banner(fetched, Redirect)
            ELSE IF Suspicious(p.entries)
                 THEN IF ban.raises
                      THEN ScrapePath(cc, pages, k + 1, ban, fetched + 1, TRUE)
                      ELSE Emit(Overridden(p.entries,
                                           fetch_banner_individual_price(cc, ban)),
                                fetched + 1)
            ELSE Emit(p.entries, fetched)
    IN  IF k > Len(pages)
        THEN WithFetched(banner_individual_row(cc, cn, ban, Meta(FALSE, had)), fetched)
        ELSE Page(pages[k])

\* scrape_country(alpha2), given the answers of the site for its paths and of
\* the banner.
scrape_country(alpha2, pages, ban) == ScrapePath(Upper(alpha2), pages, 1, ban, 0, FALSE)

(***************************************************************************)
(* Plan names (standardize_plan, classify, normalize_plan_name)            *)
(***************************************************************************)
\* The characters of the country codes and names, by code point.
CodeOrder == <<" ", "A", "B", "C", "D", "E", "F", "G", "H", "I", "J", "K", "L", "M", "N", "O", "P", "Q", "R", "S", "T", "U", "V", "W", "X", "Y", "Z", "a", "b", "c", "d", "e", "f", "g", "h", "i", "j", "k", "l", "m", "n", "o", "p", "q", "r", "s", "t", "u", "v", "w", "x", "y", "z">>

Ord(c) == CHOOSE k \in 1..Len(CodeOrder) : CodeOrder[k] = c

\* a < b for two strings of Python.
RECURSIVE StrLess(_, _)
StrLess(a, b) ==
    IF b = <<>> THEN FALSE
    ELSE IF a = <<>> THEN TRUE
    ELSE IF a[1] = b[1] THEN StrLess(Tail(a), Tail(b))
    ELSE Ord(a[1]) < Ord(b[1])

\* str.capitalize()
Capitalize(s) ==
    [k \in 1..Len(s) |-> IF k = 1 THEN Upper(<<s[k]>>)[1] ELSE Lower(<<s[k]>>)[1]]

\* `w in s` for two strings.
Within(w, s) == \E i \in 1..(Len(s) - Len(w) + 1) : SubSeq(s, i, i + Len(w) - 1) = w

\* What translator.translate answers for one text: it raises, or it gives
\* the text `text`.
Translation(raises, text) == [raises |-> raises, text |-> text]

\* translate_text_cached(text) of both scrapers on a miss of the cache.
translate_text_cached(text, tr) == IF tr.raises THEN Lower(text) ELSE Lower(tr.text)

\* The names of TIER_ORDER as texts.
TierText == [Student |-> <<"S", "t", "u", "d", "e", "n", "t">>, Individual |-> <<"I", "n", "d", "i", "v", "i", "d", "u", "a", "l">>, Family |-> <<"F", "a", "m", "i", "l", "y">>]

standardize_plan(plan_text, idx, tr) ==
    LET Of(s) ==
            IF Within(<<"s", "t", "u", "d", "e", "n", "t">>, s) THEN <<"S", "t", "u", "d", "e", "n", "t">>
            ELSE IF Within(<<"i", "n", "d", "i", "v", "i", "d", "u", "a", "l">>, s) \/ Within(<<"p", "e", "r", "s", "o", "n", "a", "l">>, s) THEN <<"I", "n", "d", "i", "v", "i", "d", "u", "a", "l">>
            ELSE IF Within(<<"f", "a", "m", "i", "l", "y">>, s) THEN <<"F", "a", "m", "i", "l", "y">>
            ELSE IF idx < Len(TIER_ORDER) THEN TierText[TIER_ORDER[idx + 1]]
            ELSE plan_text
    IN  Of(translate_text_cached(plan_text, tr))

Words(ws) == Cat(<<WB, Alt(ws), WB>>)

\* PLAN_RE, in the order of the dict; the patterns are (?i).
PLAN_RE ==
    <<[plan |-> <<"S", "t", "u", "d", "e", "n", "t">>,
       rx |-> Alt(<<Words(<<Str(<<"s", "t", "u", "d", "e", "n", "t">>), Str(<<"e", "s", "t", "u", "d", "i", "a", "n", "t", "e">>), Str(<<"u00E9", "t", "u", "d", "i", "a", "n", "t">>),
                            Str(<<"e", "t", "u", "d", "i", "a", "n", "t">>), Str(<<"s", "c", "h", "u00FC", "l", "e", "r">>), Str(<<"s", "c", "h", "u", "e", "l", "e", "r">>),
                            Str(<<"u0441", "u0442", "u0443", "u0434", "u0435", "u043D", "u0442">>), Str(<<"uD559", "uC0DD">>),
                            Cat(<<Str(<<"s", "i", "n", "h">>), Plus(Cls(SpaceChars)), Str(<<"v", "i", "u00EA", "n">>)>>)>>),
                    Str(<<"u5B66", "u751F">>), Str(<<"u5B78", "u751F">>)>>)],
      [plan |-> <<"I", "n", "d", "i", "v", "i", "d", "u", "a", "l">>,
       rx |-> Alt(<<Words(<<Str(<<"i", "n", "d", "i", "v", "i", "d", "u", "a", "l">>), Str(<<"p", "e", "r", "s", "o", "n", "a", "l">>), Str(<<"i", "n", "d", "i", "v", "i", "d", "u", "a", "l", "e">>),
                            Str(<<"i", "n", "d", "i", "v", "i", "d", "u", "e", "l">>), Str(<<"i", "n", "d", "i", "v", "i", "d", "u", "e", "l", "l">>),
                            Str(<<"i", "n", "d", "i", "v", "i", "d", "u", "o">>)>>),
                    Str(<<"u500B", "u4EBA">>), Str(<<"u4E2A", "u4EBA">>), Str(<<"uAC1C", "uC778">>)>>)],
      [plan |-> <<"F", "a", "m", "i", "l", "y">>,
       rx |-> Alt(<<Words(<<Str(<<"f", "a", "m", "i", "l", "y">>), Str(<<"f", "a", "m", "i", "l", "i", "a">>), Str(<<"f", "a", "m", "i", "l", "l", "e">>),
                            Str(<<"f", "a", "m", "i", "l", "i", "e">>), Str(<<"f", "a", "m", "i", "g", "l", "i", "a">>),
                            Cat(<<Str(<<"f", "a", "m">>), Cls({"u00ED", "i"}), Str(<<"l", "i", "a">>)>>)>>),
                    Str(<<"u5BB6", "u65CF">>), Str(<<"u5BB6", "u5EAD">>), Str(<<"uAC00", "uC871">>)>>)]>>

\* The plan of the first pattern of PLAN_RE that is found in txt, <<>> if none.
PlanOfRe(txt) ==
    LET First(hits) ==
            IF hits = {} THEN <<>>
            ELSE PLAN_RE[CHOOSE n \in hits : \A k \in hits : n <= k].plan
    IN  First({n \in 1..Len(PLAN_RE) : Found(PLAN_RE[n].rx, Lower(txt))})

\* A card of the plans section: its id, its classes, and the text of its
\* first heading or paragraph; has_head is FALSE when it has none.
PlanCard(id, classes, has_head, head) ==
    [id |-> id, classes |-> classes, has_head |-> has_head, head |-> head]

\* classify(card) of extract_plan_entries_from_dom_apple
classify(c, tr) ==
    IF Lower(c.id) \in {<<"s", "t", "u", "d", "e", "n", "t">>, <<"i", "n", "d", "i", "v", "i", "d", "u", "a", "l">>, <<"f", "a", "m", "i", "l", "y">>}
    THEN Capitalize(Lower(c.id))
    ELSE IF \E k \in c.classes : Lower(k) = <<"s", "t", "u", "d", "e", "n", "t">> THEN <<"S", "t", "u", "d", "e", "n", "t">>
    ELSE IF \E k \in c.classes : Lower(k) \in {<<"i", "n", "d", "i", "v", "i", "d", "u", "a", "l">>, <<"p", "e", "r", "s", "o", "n", "a", "l">>}
         THEN <<"I", "n", "d", "i", "v", "i", "d", "u", "a", "l">>
    ELSE IF \E k \in c.classes : Lower(k) = <<"f", "a", "m", "i", "l", "y">> THEN <<"F", "a", "m", "i", "l", "y">>
    ELSE IF c.has_head
         THEN IF PlanOfRe(Strip(c.head)) # <<>> THEN PlanOfRe(Strip(c.head))
              ELSE standardize_plan(Strip(c.head), 0, tr)
    ELSE <<"I", "n", "d", "i", "v", "i", "d", "u", "a", "l">>

\* STANDARD_PLAN_NAMES of spotify_scraper.py
STANDARD_PLAN_NAMES ==
    <<<<"P", "l", "a", "t", "i", "n", "u", "m">>, <<"L", "i", "t", "e">>, <<"I", "n", "d", "i", "v", "i", "d", "u", "a", "l">>, <<"S", "t", "u", "d", "e", "n", "t">>, <<"F", "a", "m", "i", "l", "y">>, <<"D", "u", "o">>,
      <<"A", "u", "d", "i", "o", "b", "o", "o", "k", "s">>, <<"B", "a", "s", "i", "c">>, <<"M", "i", "n", "i">>, <<"S", "t", "a", "n", "d", "a", "r", "d">>>>

\* The first standard name whose lower case is in s, <<>> if none.
FirstNameIn(s) ==
    LET First(hits) ==
            IF hits = {} THEN <<>>
            ELSE STANDARD_PLAN_NAMES[CHOOSE n \in hits : \A k \in hits : n <= k]
    IN  First({n \in 1..Len(STANDARD_PLAN_NAMES) : Within(Lower(STANDARD_PLAN_NAMES[n]), s)})

\* SequenceMatcher.find_longest_match without junk: the longest block
\* a[i..i+k-1] = b[j..j+k-1] inside a[alo..ahi], b[blo..bhi], of those the
\* one that starts first in a, of those the one that starts first in b;
\* <<>> when no character matches.
find_longest_match(a, alo, ahi, b, blo, bhi) ==
    LET Blocks ==
            {m \in (alo..ahi) \X (blo..bhi) \X (1..(ahi - alo + 1)) :
                /\ m[1] + m[3] - 1 <= ahi
                /\ m[2] + m[3] - 1 <= bhi
                /\ SubSeq(a, m[1], m[1] + m[3] - 1) = SubSeq(b, m[2], m[2] + m[3] - 1)}
        Best(ms) ==
            IF ms = {} THEN <<>>
            ELSE CHOOSE m \in ms : \A o \in ms :
                    \/ m[3] > o[3]
                    \/ m[3] = o[3] /\ m[1] < o[1]
                    \/ m[3] = o[3] /\ m[1] = o[1] /\ m[2] <= o[2]
    IN  Best(Blocks)

\* The number of matched characters of SequenceMatcher.get_matching_blocks.
RECURSIVE Matched(_, _, _, _, _, _)
Matched(a, alo, ahi, b, blo, bhi) ==
    LET Around(m) ==
            IF m = <<>> THEN 0
            ELSE m[3] + Matched(a, alo, m[1] - 1, b, blo, m[2] - 1)
                      + Matched(a, m[1] + m[3], ahi, b, m[2] + m[3], bhi)
    IN  IF alo > ahi \/ blo > bhi THEN 0
        ELSE Around(find_longest_match(a, alo, ahi, b, blo, bhi))

\* The cutoff of get_close_matches, in tenths.
Cutoff == 6

\* SequenceMatcher(None, a, b).ratio() = 2M / T as the pair <<2M, T>>; two
\* empty strings have the ratio 1.
Ratio(a, b) ==
    IF Len(a) + Len(b) = 0 THEN <<1, 1>>
    ELSE <<2 * Matched(a, 1, Len(a), b, 1, Len(b)), Len(a) + Len(b)>>

\* get_close_matches(word, [n.lower() for n in STANDARD_PLAN_NAMES], n=1,
\* cutoff=0.6): the name of the highest ratio, of those the greatest
\* string; <<>> for the empty list.
get_close_matches(word) ==
    LET Score(n) == Ratio(Lower(STANDARD_PLAN_NAMES[n]), word)
        Enough(r) == 10 * r[1] >= Cutoff * r[2]
        Cmp(n, o, r, q) ==
            \/ r[1] * q[2] > q[1] * r[2]
            \/ /\ r[1] * q[2] = q[1] * r[2]
               /\ ~StrLess(Lower(STANDARD_PLAN_NAMES[n]), Lower(STANDARD_PLAN_NAMES[o]))
        Above(n, o) == Cmp(n, o, Score(n), Score(o))
        Best(close) ==
            IF close = {} THEN <<>>
            ELSE Lower(STANDARD_PLAN_NAMES[CHOOSE n \in close : \A o \in close : Above(n, o)])
    IN  Best({n \in 1..Len(STANDARD_PLAN_NAMES) : Enough(Score(n))})

\* normalize_plan_name(name) of spotify_scraper.py
normalize_plan_name(name, tr) ==
    LET Fuzzy(m) == IF m # <<>> THEN Capitalize(m) ELSE <<"O", "t", "h", "e", "r">>
        IsName(tok) == \E n \in 1..Len(STANDARD_PLAN_NAMES) : Lower(STANDARD_PLAN_NAMES[n]) = tok
        NameOf(tok) ==
            STANDARD_PLAN_NAMES[CHOOSE n \in 1..Len(STANDARD_PLAN_NAMES) :
                                    Lower(STANDARD_PLAN_NAMES[n]) = tok]
        ByToken(raw, names, translated) ==
            IF names # <<>> THEN NameOf(Slice(raw, names[1][1] - 1, names[1][2] - 1))
            ELSE Fuzzy(get_close_matches(translated))
        Translated(raw, translated) ==
            IF FirstNameIn(translated) # <<>> THEN FirstNameIn(translated)
            ELSE ByToken(raw,
                         SelectSeq(FindIter(Plus(Cls(LowerLetters)), raw),
                                   LAMBDA m : IsName(Slice(raw, m[1] - 1, m[2] - 1))),
                         translated)
        Of(raw) ==
            IF Found(Words(<<Str(<<"p", "e", "r", "s", "o", "n", "a", "l">>), Str(<<"p", "e", "r", "s", "o", "n", "n", "e", "l">>), Str(<<"s", "t", "a", "f", "f">>)>>), raw)
            THEN <<"I", "n", "d", "i", "v", "i", "d", "u", "a", "l">>
            ELSE IF FirstNameIn(raw) # <<>> THEN FirstNameIn(raw)
            ELSE Translated(raw, translate_text_cached(raw, tr))
    IN  Of(Lower(Strip(name)))

(***************************************************************************)
(* The entry point run_apple_music_scraper and the globals it sets         *)
(***************************************************************************)
\* TEST_COUNTRIES as the module is loaded.
BuiltInTestCountries ==
    <<<<"U", "S">>, <<"A", "F">>, <<"D", "Z">>, <<"A", "R">>, <<"B", "R">>, <<"B", "G">>, <<"C", "O">>, <<"I", "D">>, <<"I", "N">>, <<"I", "Q">>,
      <<"H", "K">>, <<"N", "O">>, <<"D", "K">>, <<"M", "O">>, <<"C", "N">>, <<"K", "W">>, <<"S", "A">>, <<"Z", "A">>, <<"J", "P">>, <<"K", "R">>,
      <<"E", "C">>, <<"B", "O">>, <<"K", "Z">>, <<"N", "G">>, <<"P", "H">>, <<"P", "K">>, <<"K", "H">>, <<"R", "U">>, <<"A", "M">>, <<"T", "R">>,
      <<"T", "J">>>>

\* [c.strip().upper() for c in test_countries if c and len(c.strip()) == 2]
TwoLetterCodes(test_countries) ==
    LET Kept == SelectSeq(test_countries, LAMBDA c : c # <<>> /\ Len(Strip(c)) = 2)
    IN  [k \in 1..Len(Kept) |-> Upper(Strip(Kept[k]))]

\* The countries run_scraper is to scrape: all those of pycountry and
\* EXTRA_REGIONS when full, else the set `codes`; all_codes is its sorted list.
Selection(full, codes) == [full |-> full, codes |-> codes]

\* The choice of all_codes by run_scraper() without override.
SelectCodes(test_mode, test_countries) ==
    IF test_mode
    THEN Selection(FALSE, {TwoLetterCodes(test_countries)[k] :
                             k \in 1..Len(TwoLetterCodes(test_countries))})
    ELSE Selection(TRUE, {})

\* The name of the exported file.
OutName(test_mode) ==
    IF test_mode THEN "apple_music_plans_TEST.xlsx" ELSE "apple_music_plans_all.xlsx"

\* One invocation of run_apple_music_scraper: where it is, its arguments
\* (None is the empty list), the all_codes it chose, the value of
\* run_scraper() ("" for None) and the value it returned.
Invocation(pc, test_mode, test_countries, chose, out, result) ==
    [pc |-> pc, test_mode |-> test_mode, test_countries |-> test_countries,
     chose |-> chose, out |-> out, result |-> result]

\* The two names of the exported file.
OutNames == {OutName(test_mode) : test_mode \in BOOLEAN}

\* A file of the working directory: whether it is there, and the workers
\* (at most one) whose invocation under way wrote what it holds.
File(there, by) == [there |-> there, by |-> by]

NoFile == File(FALSE, {})

\* A file left by an earlier run.
OldFile == File(TRUE, {})

NotInvoked == Invocation("idle", FALSE, <<>>, Selection(FALSE, {}), "", "")

Workers == {1, 2}

\* The size of the pool of run_scraper and its threads.
MAX_WORKERS == 6

PoolThreads == 1..MAX_WORKERS

\* BANNER_SEMAPHORE = threading.Semaphore(3)
BannerPermits == 3

(***************************************************************************)
(* The dispatcher (dsp_scrapers/__init__.py)                               *)
(***************************************************************************)
\* (label or "").replace("\xa0", " ").strip(), then " ".join(cleaned.split())
_normalize_dsp_label(label) == CollapseSpaces(_clean(label))

DSP_OPTIONS ==
    <<[name |-> <<"A", "p", "p", "l", "e", " ", "M", "u", "s", "i", "c">>, kind |-> "apple_music"],
      [name |-> <<"A", "p", "p", "l", "e", " ", "O", "n", "e">>, kind |-> "apple_one"],
      [name |-> <<"i", "C", "l", "o", "u", "d", "+">>, kind |-> "icloud_plus"],
      [name |-> <<"S", "p", "o", "t", "i", "f", "y">>, kind |-> "spotify"],
      [name |-> <<"N", "e", "t", "f", "l", "i", "x">>, kind |-> "netflix"],
      [name |-> <<"D", "i", "s", "n", "e", "y", "+">>, kind |-> "disney"]>>

DSP_ALIASES ==
    <<[name |-> <<"a", "p", "p", "l", "e", "o", "n", "e">>, kind |-> "apple_one"],
      [name |-> <<"a", "p", "p", "l", "e", "1">>, kind |-> "apple_one"],
      [name |-> <<"i", "c", "l", "o", "u", "d", "p", "l", "u", "s">>, kind |-> "icloud_plus"]>>

\* dict.get(key) for a table of names and kinds, "" for None; the keys of
\* NORMALIZED_OPTIONS are the names of DSP_OPTIONS in lower case.
KindOf(tbl, key) ==
    LET Get(hits) == IF hits = {} THEN "" ELSE tbl[CHOOSE n \in hits : TRUE].kind
    IN  Get({n \in 1..Len(tbl) : Lower(tbl[n].name) = key})

\* re.sub(r"[^0-9a-z]+", "", normalized_key)
CompactKey(key) == SelectSeq(key, LAMBDA c : c \in Digits \cup LowerLetters)

\* The kind run_scraper finds for a name, "" when it finds none.
DspKind(dsp_name) ==
    LET Or(a, b, c) == IF a # "" THEN a ELSE IF b # "" THEN b ELSE c
        Of(key) ==
            Or(KindOf(DSP_OPTIONS, key), KindOf(DSP_ALIASES, key),
               KindOf(DSP_ALIASES, CompactKey(key)))
    IN  Of(Lower(_normalize_dsp_label(dsp_name)))

\* The parameters of the function the dispatcher calls for a kind.  The
\* scrapers of Apple One and Disney+ are taken to have the parameters the
\* dispatcher passes.
Parameters(kind) ==
    CASE kind = "icloud_plus" -> {"test_mode"}
      [] kind = "disney" -> {"mode", "test_countries"}
      [] OTHER -> {"test_mode", "test_countries"}

\* The keyword arguments of the dispatcher's call for a kind.
Keywords(kind, test_mode, test_countries) ==
    IF kind = "disney"
    THEN [mode |-> IF test_mode THEN "test" ELSE "full", test_countries |-> test_countries]
    ELSE [test_mode |-> test_mode, test_countries |-> test_countries]

\* What a call of run_scraper gives: the exception it raises, "" for none,
\* the kind of the scraper that ran, and the arguments it ran with.
Reply(raised, kind, args) == [raised |-> raised, kind |-> kind, args |-> args]

NoArgs == [k \in {} |-> FALSE]

\* run_scraper(dsp_name, test_mode, test_countries): a name of no kind
\* raises ValueError; a keyword that is no parameter of the function called
\* raises TypeError.
Dispatched(dsp_name, test_mode, test_countries) ==
    LET Call(kind, kw) ==
            IF DOMAIN kw \subseteq Parameters(kind) THEN Reply("", kind, kw)
            ELSE Reply("TypeError", kind, NoArgs)
        To(kind) ==
            IF kind = "" THEN Reply("ValueError", "", NoArgs)
            ELSE Call(kind, Keywords(kind, test_mode, test_countries))
    IN  To(DspKind(dsp_name))

(***************************************************************************)
(* The cache of translate_text_cached (functools.lru_cache)                *)
(***************************************************************************)
\* maxsize of the lru_cache of apple_music_scraper.translate_text_cached
AppleMaxsize == 4096

\* maxsize of the lru_cache of spotify_scraper.translate_text_cached
SpotifyMaxsize == 1024

\* A cache: its entries from the least to the most recently used.
Cache(maxsize, lru) == [maxsize |-> maxsize, lru |-> lru]

CacheEntry(text, value) == [text |-> text, value |-> value]

\* The index of the entry of a text, 0 when it has none.
Cached(c, text) ==
    LET At(hits) == IF hits = {} THEN 0 ELSE CHOOSE n \in hits : TRUE
    IN  At({n \in 1..Len(c.lru) : c.lru[n].text = text})

\* A hit: the entry becomes the most recently used.
Touched(c, n) ==
    Cache(c.maxsize, SubSeq(c.lru, 1, n - 1) \o SubSeq(c.lru, n + 1, Len(c.lru))
                        \o <<c.lru[n]>>)

\* A miss: the new entry is stored, in the place of the least recently used
\* one when the cache is full.
Stored(c, e) ==
    Cache(c.maxsize, IF Len(c.lru) >= c.maxsize THEN Append(Tail(c.lru), e)
                     ELSE Append(c.lru, e))

\* One call of translate_text_cached(text): the value returned, whether the
\* translator was called, and the cache after it.
Answered(value, called, after) == [value |-> value, called |-> called, after |-> after]

CachedCall(c, text, tr) ==
    LET Hit(n) == Answered(c.lru[n].value, FALSE, Touched(c, n))
        Miss(value) == Answered(value, TRUE, Stored(c, CacheEntry(text, value)))
        At(n) == IF n > 0 THEN Hit(n) ELSE Miss(translate_text_cached(text, tr))
    IN  At(Cached(c, text))
(***************************************************************************)
(* The iCloud+ scraper: the patterns and the price of a plan paragraph     *)
(***************************************************************************)
\* The characters norm turns into a space, and those it drops.
NormSpaces == {"u00A0", "u202F", "u2009", "u00AC"}

NormDropped == {"u200B", "u200C", "u200D", "uFEFF", "u00AD"}

\* norm(s): the replacements, the dashes, re.sub(r"\s+", " ", s).strip()
norm(s) ==
    LET Replaced(c) ==
            IF c \in NormSpaces THEN " " ELSE IF c \in {"u2013", "u2014"} THEN "-" ELSE c
        Kept(t) == [k \in 1..Len(t) |-> Replaced(t[k])]
    IN  Strip(CollapseSpaces(Kept(Without(s, NormDropped))))

\* . of a pattern without re.S
Dot == NotCls({"\n"})

\* (?:\d+(?:,\d+)*)?
FootnoteMarks == Opt(Cat(<<Plus(Digit), Star(Cat(<<Str(<<",">>), Plus(Digit)>>))>>))

\* COUNTRY_RE, part by part; the group country is part 2 and ccy part 7.
COUNTRY_RE ==
    <<Bol, Lazy(Dot, 1, RepMax), Star(Space), FootnoteMarks, Star(Space), Str(<<"(">>),
      Alt(<<Rep(Cls(UpperLetters), 2, 5), Str(<<"E", "u", "r", "o">>)>>), Str(<<")">>), Star(Space),
      FootnoteMarks, Star(Space), Eol>>

\* PLAN_RE of the iCloud+ scraper under re.I, part by part; the group size is part 3, unit part 7
\* and price part 11.
icloud_PLAN_RE ==
    <<Bol, Star(Space), Plus(Digit), Star(Space),
      Rep(NotCls(UpperLetters \cup LowerLetters \cup Digits), 0, 5), Star(Space),
      Cat(<<Cls({"G", "g", "T", "t"}), Cls({"B", "b"})>>), Star(Space), Opt(Cls({":", "-"})), Star(Space),
      Lazy(Dot, 1, RepMax), Star(Space), Eol>>

\* pattern.match(text): the part boundaries of the match, <<>> for None.
MatchParts(rs, s) ==
    LET First(ways) == IF ways = <<>> THEN <<>> ELSE Head(ways)
    IN  First(Bounds(rs, 1, s, 1))

\* m.group(k) for the part k of a match m
PartOf(s, m, k) == SubSeq(s, m[k], m[k + 1] - 1)

\* re.sub(r"\d+$", "", s)
RECURSIVE WithoutDigitsAtEnd(_)
WithoutDigitsAtEnd(s) ==
    IF s # <<>> /\ s[Len(s)] \in Digits THEN WithoutDigitsAtEnd(SubSeq(s, 1, Len(s) - 1))
    ELSE s

\* re.sub(r"^[^\d]+", "", s)
RECURSIVE WithoutLead(_)
WithoutLead(s) ==
    IF s # <<>> /\ s[1] \notin Digits THEN WithoutLead(Tail(s)) ELSE s

\* NUM_TOKEN = \d[\d.,]*
NUM_TOKEN == Cat(<<Digit, Star(Cls(Digits \cup {".", ","}))>>)

\* str(int(size)): the digits without the zeros they start with.
IntText(size) ==
    IF LeadZ(size) = Len(size) THEN <<"0">> ELSE SubSeq(size, LeadZ(size) + 1, Len(size))

\* standardize_plan(size, unit) of the iCloud+ scraper
icloud_standardize_plan(size, unit) == IntText(size) \o <<" ">> \o Upper(unit)

\* s.split(c)
RECURSIVE SplitOn(_, _)
SplitOn(s, c) ==
    IF \A k \in 1..Len(s) : s[k] # c THEN <<s>>
    ELSE LET At(k) == <<SubSeq(s, 1, k - 1)>> \o SplitOn(SubSeq(s, k + 1, Len(s)), c)
         IN  At(Least({k \in 1..Len(s) : s[k] = c}))

\* s.rfind(c) as a position, 0 when c is not in s
RFind(s, c) ==
    IF \A k \in 1..Len(s) : s[k] # c THEN 0
    ELSE CHOOSE k \in 1..Len(s) : s[k] = c /\ \A j \in (k + 1)..Len(s) : s[j] # c

\* s.replace(a, b) for characters a, b
Replace(s, a, b) == [k \in 1..Len(s) |-> IF s[k] = a THEN b ELSE s[k]]

\* parse_numeric_price(s): the float, NoFloat for NaN.
parse_numeric_price(s0) ==
    LET Last(parts) == parts[Len(parts)]
        Both(token, dec) ==
            Replace(Without(token, {IF dec = "," THEN "." ELSE ","}), dec, ".")
        Commas(token, parts) ==
            IF Len(Last(parts)) = 2 THEN Replace(token, ",", ".") ELSE Without(token, {","})
        Dots(token, parts) ==
            IF /\ Len(parts) > 2
               /\ \A k \in 2..Len(parts) : Len(parts[k]) = 3
               /\ Len(Last(parts)) \in {3, 0}
            THEN FlatSeq(parts) ELSE token
        Separated(token, has_c, has_d) ==
            IF has_c /\ has_d
            THEN Both(token, IF RFind(token, ",") > RFind(token, ".") THEN "," ELSE ".")
            ELSE IF has_c THEN Commas(token, SplitOn(token, ","))
            ELSE IF has_d THEN Dots(token, SplitOn(token, "."))
            ELSE token
        Token(t) ==
            float(Separated(t, \E k \in 1..Len(t) : t[k] = ",",
                            \E k \in 1..Len(t) : t[k] = "."))
        Searched(s, m) == IF m = <<>> THEN NoFloat ELSE Token(Group(s, m))
        Stripped(s) == Searched(s, Search(NUM_TOKEN, s))
    IN  IF s0 = <<>> THEN NoFloat ELSE Stripped(WithoutLead(norm(s0)))

\* The row of a plan paragraph.
PlanLine(country, ccy, plan, price, display) ==
    [Country |-> country, Currency |-> ccy, Plan |-> plan, Price |-> price,
     Price_Display |-> display]
(***************************************************************************)
(* The web app (app.py): the expected time of a run                        *)
(***************************************************************************)
\* estimate_country_count(dsp_name, mode_label, codes)
estimate_country_count(dsp_name, mode_label, codes) ==
    IF codes # <<>> THEN Len(codes)
    ELSE IF dsp_name = <<"A", "p", "p", "l", "e", " ", "M", "u", "s", "i", "c">> THEN 230
    ELSE IF dsp_name = <<"D", "i", "s", "n", "e", "y", "+">> THEN 90
    ELSE 150

\* estimate_expected_seconds(dsp_name, mode_label, codes), in tenths of a
\* second: max(n * per, 20.0)
estimate_expected_seconds(dsp_name, mode_label, codes) ==
    LET Most(a, b) == IF a > b THEN a ELSE b
        per == IF dsp_name = <<"A", "p", "p", "l", "e", " ", "M", "u", "s", "i", "c">> THEN 30
               ELSE IF dsp_name = <<"D", "i", "s", "n", "e", "y", "+">> THEN 45
               ELSE 30
    IN  Most(estimate_country_count(dsp_name, mode_label, codes) * per, 200)

\* pct_est = min(int(100 * (elapsed / expected_total)), 95), the times in
\* tenths of a second
pct_est_without_the_cap(elapsed, expected_total) == (100 * elapsed) \div expected_total

pct_est(elapsed, expected_total) ==
    LET Least2(a, b) == IF a < b THEN a ELSE b
    IN  Least2((100 * elapsed) \div expected_total, 95)

\* A call of run_and_render: where it is, its arguments, expected_total and
\* the elapsed time (tenths of a second), the future ("running", "returned"
\* or "raised"), whether the file of the returned path is there, the value
\* of the progress bar, the percentage of the status line (NoNum before the
\* first), and whether the error box and the success box are shown.
Render(pc, dsp_name, mode_label, codes, expected_total, elapsed, future, there, progress, status, error, success) ==
    [pc |-> pc, dsp_name |-> dsp_name, mode_label |-> mode_label, codes |-> codes,
     expected_total |-> expected_total, elapsed |-> elapsed, future |-> future,
     there |-> there, progress |-> progress, status |-> status, error |-> error,
     success |-> success]

NoRun == Render("idle", <<>>, <<>>, <<>>, 0, 0, "none", FALSE, 0, NoNum, FALSE, FALSE)
(***************************************************************************)
(* Inputs of the currency functions                                        *)
(***************************************************************************)
\* The countries of the two tables, one country of neither, and one country
\* written in lower case.
AllCountries ==
    {p[1] : p \in HARDCODE_FALLBACKS \cup SPOTIFY_HARDCODE_FALLBACKS}
        \cup {<<"Z", "Z">>, <<"b", "g">>}

\* What the locale data may answer: the call raises, it lists nothing, or it
\* lists currencies.
Babels ==
    {BabelAnswer(FALSE, <<>>), BabelAnswer(TRUE, <<>>),
     BabelAnswer(TRUE, <<<<"E", "U", "R">>, <<"B", "G", "N">>>>), BabelAnswer(TRUE, <<<<"U", "S", "D">>>>)}

\* The countries the detections are asked about.
Countries ==
    {<<"U", "S">>, <<"C", "A">>, <<"K", "W">>, <<"A", "E">>, <<"J", "P">>, <<"C", "N">>, <<"T", "R">>, <<"B", "G">>, <<"Z", "Z">>}

Pieces ==
    {<<"U", "S", "$", "4", ".", "9", "9">>, <<"$", "4", ".", "9", "9">>, <<"$", "1", "2", "0", ".", "0", "0">>, <<"4", ",", "9", "9", " ", "u20AC">>, <<"H", "K", "$", "6", "8">>, <<"R", "$", " ", "2", "1", ",", "9", "0">>,
     <<"1", "2", "9", " ", "k", "r">>, <<"U", "S", "D", " ", "4", ".", "9", "9">>, <<"u00A5", "9", "8", "0">>, <<"T", "r", "y", " ", "1", " ", "m", "o", "n", "t", "h", " ", "f", "r", "e", "e">>, <<"T", "R", "Y", " ", "5", "9", ",", "9", "9">>,
     <<"u20BA", "5", "9", ",", "9", "9">>, <<"/", "m", "o", "n", "t", "h">>}

CurrencyTexts ==
    Pieces \cup {a \o <<" ">> \o b : a \in Pieces, b \in Pieces}
           \cup {<<>>, <<"T", "r", "y", " ", "1", " ", "m", "o", "n", "t", "h", " ", "f", "r", "e", "e", " ", "u2014", " ", "$", "5", ".", "4", "9">>}

\* The countries, locale answers and full texts of the cards.
CardCountries == {<<"U", "S">>, <<"C", "A">>, <<"K", "W">>, <<"A", "E">>, <<"Z", "Z">>}

CardBabels == {BabelAnswer(FALSE, <<>>), BabelAnswer(TRUE, <<<<"U", "S", "D">>>>)}

CardPieces ==
    {<<"U", "S", "$", "4", ".", "9", "9">>, <<"$", "4", ".", "9", "9">>, <<"$", "1", "2", "0", ".", "0", "0">>, <<"4", ",", "9", "9", " ", "u20AC">>, <<"1", "2", "9", " ", "k", "r">>, <<"U", "S", "D", " ", "4", ".", "9", "9">>,
     <<"T", "r", "y", " ", "1", " ", "m", "o", "n", "t", "h", " ", "f", "r", "e", "e">>, <<"T", "R", "Y", " ", "5", "9", ",", "9", "9">>, <<"/", "m", "o", "n", "t", "h">>}

CardTexts ==
    CardPieces \cup {a \o <<" ">> \o b : a \in CardPieces, b \in CardPieces}
               \cup {<<>>, <<"T", "r", "y", " ", "1", " ", "m", "o", "n", "t", "h", " ", "f", "r", "e", "e", " ", "u2014", " ", "$", "5", ".", "4", "9">>}

\* The raw texts of a card's candidate price nodes.
NodeLists == {<<>>, <<<<>>, <<"$", "4", ".", "9", "9">>>>}

(***************************************************************************)
(* State                                                                   *)
(***************************************************************************)
VARIABLES
    text,     \* the text handed to the function under study (a card's full text)
    alpha2,   \* the country code handed to it
    babel,    \* what get_territory_currencies answers for that country
    nodes,    \* the raw texts of the card's candidate price nodes
    phase,    \* "input" before the call, the name of the call after it
    cands,    \* pick_best_price_token: its list `candidates`
    pivot,    \* pick_best_price_token: the start of the last transition marker
    best,     \* pick_best_price_token: its local `best`
    picked,   \* what pick_best_price_token returned; for a card, its token_val
    out,      \* the currency, source and raw token returned or put in the entry
    guess,    \* the card: the currency and source before resolve_dollar_ambiguity
    why,      \* the card: the reason resolve_dollar_ambiguity gave, "" for None
    \* one call of scrape_country(alpha2)
    pages,    \* what the site answers for each path of the country
    ban,      \* what the music.apple.com banner answers
    did,      \* what the call did: rows, log_missing calls, raised, fetched
    \* one call of run_scraper of apple_music_scraper.py
    all_codes,       \* the sorted list of the countries to scrape
    futures,         \* the countries whose future the main loop has not taken
    all_rows,        \* the rows gathered so far, in the order they came
    failed_codes,    \* the countries whose future raised, in the order they came
    retried,         \* how many of failed_codes the retry loop has been through
    missing_db,      \* the rows of the table `missing` of MISSING_DB
    MISSING_BUFFER,  \* the global list of the records of log_missing
    stage,           \* "pool", "retry", "export", then "done"; "scraped" after a lone call
    table,           \* the exported frame, <<>> when nothing was exported
    attempts,        \* the calls of scrape_country so far: country, loop, outcome
    \* one plan card
    card,     \* its id, its classes and the text of its heading
    idx,      \* its index among the cards of its container
    heard,    \* what translator.translate answers for the text of its heading
    named,    \* by which extractor it was named, its name, the plans of the rows
    \* the module apple_music_scraper and the invocations of its entry point
    TEST_MODE,       \* the global TEST_MODE
    TEST_COUNTRIES,  \* the global TEST_COUNTRIES
    calls,           \* the invocations of run_apple_music_scraper, by worker
    files,           \* the exported files in the working directory, by name
    \* one call of run_scraper of dsp_scrapers/__init__.py
    request,  \* its arguments dsp_name, test_mode and test_countries
    reply,    \* what it gave
    \* the cache of translate_text_cached of one scraper
    cache,    \* its maxsize and its entries, the least recently used first
    asked,    \* how many texts have been translated after the first
    first,    \* what the first call returned for its text
    last,     \* the text of the last call, what it returned, whether it translated
    \* two calls of _normalize_number, the second on what the first returned
    once,     \* what _normalize_number(text) returned
    twice,    \* what _normalize_number(once) returned
    \* the workers of the pool at the banner fetches
    permits,  \* the counter of BANNER_SEMAPHORE
    threads,  \* where each worker is
    \* parse_all_rows of the iCloud+ scraper
    paras,    \* the texts of the paragraphs it selected
    seen,     \* how many of them the loop has been through
    plan_rows,     \* its list `rows`
    cur_country,   \* its local of that name, <<>> for None and for ""
    cur_ccy,  \* its local of that name, <<>> for None
    \* run_and_render of the web app
    ui,       \* the call: where it is, its arguments, the future, what is shown
    results   \* st.session_state["results"]

callVars == <<text, alpha2, babel, nodes, phase, cands, pivot, best, picked, out, guess, why>>

countryVars == <<pages, ban, did>>

runVars ==
    <<all_codes, futures, all_rows, failed_codes, retried, missing_db, MISSING_BUFFER, stage,
      table, attempts>>

planVars == <<card, idx, heard, named>>

invokeVars == <<TEST_MODE, TEST_COUNTRIES, calls, files>>

dispatchVars == <<request, reply>>

cacheVars == <<cache, asked, first, last>>

numberVars == <<once, twice>>

bannerVars == <<permits, threads>>

parseVars == <<paras, seen, plan_rows, cur_country, cur_ccy>>

renderVars == <<ui, results>>

restVars == <<numberVars, bannerVars, parseVars, renderVars>>

otherVars == <<planVars, invokeVars, dispatchVars, cacheVars, restVars>>

laterVars == <<countryVars, runVars, otherVars>>

\* What the actions on one plan card leave alone.
notPlan ==
    <<callVars, countryVars, runVars, invokeVars, dispatchVars, cacheVars, restVars>>

\* What the steps of the invocations leave alone.
notInvoke ==
    <<callVars, countryVars, runVars, planVars, dispatchVars, cacheVars, restVars>>

\* What a call of the dispatcher leaves alone.
notDispatch ==
    <<callVars, countryVars, runVars, planVars, invokeVars, cacheVars, restVars>>

\* What the calls of translate_text_cached leave alone.
notCache ==
    <<callVars, countryVars, runVars, planVars, invokeVars, dispatchVars, restVars>>

vars == <<callVars, laterVars>>

NoOut == Detected(<<>>, "", <<>>)

\* No call of scrape_country is under study.
CountryIdle ==
    /\ pages = <<>>
    /\ ban = BannerAnswer(FALSE, <<>>, NoNum, <<>>)
    /\ did = Did(<<>>, <<>>, FALSE, 0)

\* No run of run_scraper is under study.
RunIdle ==
    /\ all_codes = <<>>
    /\ futures = {}
    /\ all_rows = <<>>
    /\ failed_codes = <<>>
    /\ retried = 0
    /\ missing_db = <<>>
    /\ MISSING_BUFFER = <<>>
    /\ stage = "idle"
    /\ table = <<>>
    /\ attempts = <<>>

NoPlan == [by |-> "", std |-> <<>>, rows |-> {}]

\* No plan card is under study.
PlanIdle ==
    /\ card = PlanCard(<<>>, {}, FALSE, <<>>)
    /\ idx = 0
    /\ heard = Translation(FALSE, <<>>)
    /\ named = NoPlan

\* The module as it is loaded, with no invocation.
InvokeIdle ==
    /\ TEST_MODE = FALSE
    /\ TEST_COUNTRIES = BuiltInTestCountries
    /\ calls = [w \in Workers |-> NotInvoked]
    /\ files = [name \in OutNames |-> NoFile]

NoRequest == [dsp_name |-> <<>>, test_mode |-> FALSE, test_countries |-> <<>>]

NoReply == Reply("", "", NoArgs)

\* No call of the dispatcher is under study.
DispatchIdle ==
    /\ request = NoRequest
    /\ reply = NoReply

NoCall == [text |-> <<>>, value |-> <<>>, called |-> FALSE]

\* The cache of translate_text_cached is not under study.
CacheIdle ==
    /\ cache = Cache(0, <<>>)
    /\ asked = 0
    /\ first = <<>>
    /\ last = NoCall

\* No number is under study.
NumberIdle ==
    /\ once = <<>>
    /\ twice = <<>>

\* No worker is under study.
BannerIdle ==
    /\ permits = BannerPermits
    /\ threads = [t \in PoolThreads |-> "idle"]

\* No article is under study.
ParseIdle ==
    /\ paras = <<>>
    /\ seen = 0
    /\ plan_rows = <<>>
    /\ cur_country = <<>>
    /\ cur_ccy = <<>>

\* The page before any run.
RenderIdle ==
    /\ ui = NoRun
    /\ results = <<>>

RestIdle == NumberIdle /\ BannerIdle /\ ParseIdle /\ RenderIdle

OtherIdle == PlanIdle /\ InvokeIdle /\ DispatchIdle /\ CacheIdle /\ RestIdle

Blank ==
    /\ phase = "input"
    /\ cands = <<>>
    /\ pivot = NoPivot
    /\ best = NoBest
    /\ picked = None
    /\ out = NoOut
    /\ guess = NoOut
    /\ why = ""
    /\ CountryIdle
    /\ RunIdle
    /\ OtherIdle

\* No call of the price and currency functions is under study.
CallIdle ==
    /\ text = <<>>
    /\ babel = BabelAnswer(FALSE, <<>>)
    /\ nodes = <<>>
    /\ phase = "input"
    /\ cands = <<>>
    /\ pivot = NoPivot
    /\ best = NoBest
    /\ picked = None
    /\ out = NoOut
    /\ guess = NoOut
    /\ why = ""

InitPick ==
    /\ text \in Texts
    /\ alpha2 = <<"U", "S">>
    /\ babel = BabelAnswer(FALSE, <<>>)
    /\ nodes = <<>>
    /\ Blank

InitDefault ==
    /\ text = <<>>
    /\ alpha2 \in AllCountries
    /\ babel \in Babels
    /\ nodes = <<>>
    /\ Blank

InitDetect ==
    /\ text \in CurrencyTexts
    /\ alpha2 \in Countries
    /\ babel \in Babels
    /\ nodes = <<>>
    /\ Blank

InitCard ==
    /\ text \in CardTexts
    /\ alpha2 \in CardCountries
    /\ babel \in CardBabels
    /\ nodes \in NodeLists
    /\ Blank

\* One call of pick_best_price_token(text).
Pick ==
    /\ phase = "input"
    /\ \E s \in {normalize_for_price_extraction(text)} :
         \E cs \in {IF text = <<>> THEN <<>> ELSE Candidates(s)},
            pv \in {IF text = <<>> THEN NoPivot ELSE Pivot(s)} :
             /\ cands' = cs
             /\ pivot' = pv
             /\ \E b \in {BestAmong(cs, pv)} :
                  /\ best' = b
                  /\ picked' = Returned(b)
    /\ phase' = "done"
    /\ UNCHANGED <<text, alpha2, babel, nodes, out, guess, why, laterVars>>

\* One call of default_currency_for_alpha2(alpha2) of apple_music_scraper.py.
DefaultApple ==
    /\ phase = "input"
    /\ out' = Detected(default_currency_for_alpha2(alpha2, babel), "", <<>>)
    /\ phase' = "apple_default"
    /\ UNCHANGED <<text, alpha2, babel, nodes, cands, pivot, best, picked, guess, why, laterVars>>

\* One call of default_currency_for_alpha2(alpha2) of spotify_scraper.py.
DefaultSpotify ==
    /\ phase = "input"
    /\ out' = Detected(spotify_default_currency_for_alpha2(alpha2, babel), "", <<>>)
    /\ phase' = "spotify_default"
    /\ UNCHANGED <<text, alpha2, babel, nodes, cands, pivot, best, picked, guess, why, laterVars>>

\* One call of detect_currency_in_text(text, alpha2) of apple_music_scraper.py.
DetectInText ==
    /\ phase = "input"
    /\ out' = detect_currency_in_text(text, alpha2, babel)
    /\ phase' = "apple_text"
    /\ UNCHANGED <<text, alpha2, babel, nodes, cands, pivot, best, picked, guess, why, laterVars>>

\* One call of detect_currency_from_display(text, alpha2).
DetectFromDisplay ==
    /\ phase = "input"
    /\ out' = detect_currency_from_display(text, alpha2, babel)
    /\ phase' = "apple_display"
    /\ UNCHANGED <<text, alpha2, babel, nodes, cands, pivot, best, picked, guess, why, laterVars>>

\* One call of detect_currency_in_text(text, alpha2) of spotify_scraper.py.
SpotifyDetectInText ==
    /\ phase = "input"
    /\ out' = spotify_detect_currency_in_text(text, alpha2, babel)
    /\ phase' = "spotify_text"
    /\ UNCHANGED <<text, alpha2, babel, nodes, cands, pivot, best, picked, guess, why, laterVars>>

\* extract_plan_entries_from_dom_apple, one card: its token, and the currency
\* of its entry; a card with no token gets no entry.
Card ==
    /\ phase = "input"
    /\ \E token_val \in {CardToken(text, nodes)} :
         /\ picked' = token_val
         /\ IF token_val = None
            THEN /\ phase' = "no_entry"
                 /\ UNCHANGED <<out, guess, why>>
            ELSE \E cur \in {CardCurrency(token_val.token, token_val.value,
                                          text, alpha2, babel)} :
                     /\ phase' = "entry"
                     /\ out' = cur.out
                     /\ guess' = cur.guess
                     /\ why' = cur.why
    /\ UNCHANGED <<text, alpha2, babel, nodes, cands, pivot, best, laterVars>>

NextPick == Pick

NextDefault == DefaultApple \/ DefaultSpotify

NextDetect == DetectInText \/ DetectFromDisplay \/ SpotifyDetectInText

NextCard == Card

SpecPick == InitPick /\ [][NextPick]_vars

SpecDefault == InitDefault /\ [][NextDefault]_vars

SpecDetect == InitDetect /\ [][NextDetect]_vars

SpecCard == InitCard /\ [][NextCard]_vars


(***************************************************************************)
(* One call of scrape_country                                              *)
(***************************************************************************)
Eur == <<"E", "U", "R">>

\* What extract_plan_entries_from_dom may find on a page: nothing, all three
\* plans, Individual alone, an Individual price under the Student price,
\* under the floor, or both, and a page without Individual.
NoEntries == [std \in {} |-> NoBanner]

EntrySets ==
    {NoEntries,
     [Individual |-> Entry(1099, Eur)],
     [Individual |-> Entry(99, Eur)],
     [Student |-> Entry(599, Eur), Individual |-> Entry(1099, Eur),
      Family |-> Entry(1699, Eur)],
     [Student |-> Entry(599, Eur), Individual |-> Entry(499, Eur),
      Family |-> Entry(1699, Eur)],
     [Student |-> Entry(1199, Eur), Individual |-> Entry(1099, Eur)],
     [Student |-> Entry(599, Eur), Family |-> Entry(1699, Eur)]}

\* The answers of the site for one path: the request raises, the final URL is
\* the US hub, another storefront, a status other than 200, a page whose
\* canonical URL is the US hub, and the pages with entries.
PageAnswers ==
    {PageAnswer(TRUE, FALSE, <<>>, FALSE, FALSE, NoEntries, FALSE),
     PageAnswer(FALSE, TRUE, <<>>, TRUE, FALSE, NoEntries, FALSE),
     PageAnswer(FALSE, FALSE, <<"F", "R">>, TRUE, FALSE, NoEntries, FALSE),
     PageAnswer(FALSE, FALSE, <<>>, FALSE, FALSE, NoEntries, FALSE),
     PageAnswer(FALSE, FALSE, <<>>, TRUE, TRUE, NoEntries, FALSE),
     PageAnswer(FALSE, FALSE, <<>>, TRUE, FALSE, NoEntries, TRUE)}
    \cup {PageAnswer(FALSE, FALSE, <<>>, TRUE, FALSE, e, FALSE) : e \in EntrySets}

\* The answers of the banner: it raises, it is of another storefront, it
\* shows no price, it shows a price.
BannerAnswers(cc) ==
    {BannerAnswer(TRUE, <<>>, NoNum, <<>>),
     BannerAnswer(FALSE, <<>>, NoNum, <<>>),
     BannerAnswer(FALSE, cc, NoNum, <<>>),
     BannerAnswer(FALSE, cc, 1099, Eur)}

\* The answers for the paths of a country.
PagesOf(cc) ==
    IF PathCount(cc) = 1 THEN {<<p>> : p \in PageAnswers}
    ELSE {<<p, q>> : p \in PageAnswers, q \in PageAnswers}

ScrapedCountries == {<<"D", "E">>, <<"G", "B">>, <<"U", "S">>}

InitCountry ==
    /\ alpha2 \in ScrapedCountries
    /\ pages \in PagesOf(alpha2)
    /\ ban \in BannerAnswers(alpha2)
    /\ did = Did(<<>>, <<>>, FALSE, 0)
    /\ CallIdle
    /\ RunIdle
    /\ OtherIdle

\* One call of scrape_country(alpha2).
ScrapeCountry ==
    /\ stage = "idle"
    /\ did' = scrape_country(alpha2, pages, ban)
    /\ stage' = "scraped"
    /\ UNCHANGED <<callVars, pages, ban, all_codes, futures, all_rows, failed_codes, retried,
                   missing_db, MISSING_BUFFER, table, attempts,
                   otherVars>>

NextCountry == ScrapeCountry

SpecCountry == InitCountry /\ [][NextCountry]_vars

(***************************************************************************)
(* One run of run_scraper (apple_music_scraper.py)                         *)
(***************************************************************************)
\* sorted(requested) for a set of strings.
RECURSIVE sorted(_)
sorted(requested) ==
    IF requested = {} THEN <<>>
    ELSE LET First(m) == <<m>> \o sorted(requested \ {m})
         IN  First(CHOOSE m \in requested : \A o \in requested \ {m} : StrLess(m, o))

\* log_missing: the records of the calls `logs`, stamped with the time, which
\* is counted in rows of the table `missing`.
log_missing(db, logs) ==
    [k \in 1..Len(logs) |->
        [ts |-> Len(db) + k, country |-> logs[k].country,
         country_code |-> logs[k].country_code, url |-> logs[k].url,
         reason |-> logs[k].reason]]

\* The log_missing calls of one attempt on cc: those of scrape_country, then
\* the one of the handler of run_scraper when the attempt raised.
AttemptLogs(cc, d, what) ==
    IF d.raised
    THEN Append(d.logs, Missing(CountryName(cc), cc, "apple.com", what))
    ELSE d.logs

\* pd.Categorical(df["Plan"], TIER_ORDER, ordered=True): the code of a plan.
PlanCode(plan) == CHOOSE k \in 1..Len(TIER_ORDER) : TIER_ORDER[k] = plan

\* The order of df.sort_values(["Country", "Plan"]).
RowLess(a, b) ==
    \/ StrLess(a.Country, b.Country)
    \/ a.Country = b.Country /\ PlanCode(a.Plan) < PlanCode(b.Plan)

\* The row r put into the sorted frame, after the rows that are not greater.
RECURSIVE InsertRow(_, _)
InsertRow(frame, r) ==
    IF frame = <<>> THEN <<r>>
    ELSE IF RowLess(r, frame[1]) THEN <<r>> \o frame
    ELSE <<frame[1]>> \o InsertRow(Tail(frame), r)

sort_values_unsorted(rows, k) == rows

\* df.sort_values(["Country", "Plan"], ignore_index=True) of the first k rows.
RECURSIVE sort_values(_, _)
sort_values(rows, k) ==
    IF k = 0 THEN <<>> ELSE InsertRow(sort_values(rows, k - 1), rows[k])

\* df[cols]: the columns of the exported frame.
Cols(frame) ==
    [k \in 1..Len(frame) |->
        [Country |-> frame[k].Country, Code |-> frame[k].Code,
         Currency |-> frame[k].Currency, Plan |-> frame[k].Plan,
         Value |-> frame[k].Value]]

\* The records of the buffer that are not of the country cc.
NotOf(buffer, cc) == SelectSeq(buffer, LAMBDA m : m.country_code # cc)

\* One call of scrape_country in a run: the country, the loop that made it
\* ("pool" or "retry"), whether it raised and how many rows it returned.
Attempt(cc, loop, d) ==
    [code |-> cc, loop |-> loop, raised |-> d.raised, rows |-> Len(d.rows)]

RunCountries == {<<"C", "H">>, <<"D", "E">>, <<"G", "B">>}

\* The answers of the site during a run: the request raises, a page with
\* the three plans, one with a suspicious Individual price, one with no
\* plan and one with no Individual.
RunPageAnswers ==
    {PageAnswer(TRUE, FALSE, <<>>, FALSE, FALSE, NoEntries, FALSE)}
    \cup {PageAnswer(FALSE, FALSE, <<>>, TRUE, FALSE, e, FALSE) :
            e \in {NoEntries,
                   [Student |-> Entry(599, Eur), Individual |-> Entry(1099, Eur),
                    Family |-> Entry(1699, Eur)],
                   [Student |-> Entry(599, Eur), Individual |-> Entry(499, Eur),
                    Family |-> Entry(1699, Eur)],
                   [Student |-> Entry(599, Eur), Family |-> Entry(1699, Eur)]}}

RunPagesOf(cc) ==
    IF PathCount(cc) = 1 THEN {<<p>> : p \in RunPageAnswers}
    ELSE {<<p, q>> : p \in RunPageAnswers, q \in RunPageAnswers}

\* run_scraper(country_codes_override) up to the submission of the futures.
InitRun ==
    /\ \E requested \in (SUBSET RunCountries) \ {{}} :
          /\ all_codes = sorted(requested)
          /\ futures = requested
    /\ all_rows = <<>>
    /\ failed_codes = <<>>
    /\ retried = 0
    /\ missing_db = <<>>
    /\ MISSING_BUFFER = <<>>
    /\ stage = "pool"
    /\ table = <<>>
    /\ attempts = <<>>
    /\ alpha2 = <<>>
    /\ CallIdle
    /\ CountryIdle
    /\ OtherIdle

\* One turn of the loop over as_completed(futures): the future of cc is
\* done, with what its scrape_country call did; pages, ban and did keep
\* the answers and the outcome of that call.
Complete(cc) ==
    /\ stage = "pool"
    /\ cc \in futures
    /\ \E p \in RunPagesOf(cc), b \in BannerAnswers(cc) :
       \E d \in {scrape_country(cc, p, b)} :
       \E logs \in {log_missing(missing_db, AttemptLogs(cc, d, "Future exception"))} :
          /\ all_rows' = IF d.raised THEN all_rows ELSE all_rows \o d.rows
          /\ failed_codes' = IF d.raised THEN Append(failed_codes, cc) ELSE failed_codes
          /\ missing_db' = missing_db \o logs
          /\ MISSING_BUFFER' = MISSING_BUFFER \o logs
          /\ attempts' = Append(attempts, Attempt(cc, "pool", d))
          /\ pages' = p
          /\ ban' = b
          /\ did' = d
    /\ futures' = futures \ {cc}
    /\ stage' = IF futures' # {} THEN "pool"
                ELSE IF failed_codes' # <<>> THEN "retry" ELSE "export"
    /\ UNCHANGED <<callVars, all_codes, retried, table, otherVars>>

Retry_of_every_country ==
    /\ stage = "retry"
    /\ \E cc \in {all_codes[retried + 1]} :
       \E p \in RunPagesOf(cc), b \in BannerAnswers(cc) :
       \E d \in {scrape_country(cc, p, b)} :
       \E logs \in {log_missing(missing_db, AttemptLogs(cc, d, "Retry exception"))} :
          /\ all_rows' = IF d.raised THEN all_rows ELSE all_rows \o d.rows
          /\ missing_db' = missing_db \o logs
          /\ MISSING_BUFFER' = IF ~d.raised /\ d.rows # <<>>
                               THEN NotOf(MISSING_BUFFER \o logs, cc)
                               ELSE MISSING_BUFFER \o logs
          /\ attempts' = Append(attempts, Attempt(cc, "retry", d))
          /\ pages' = p
          /\ ban' = b
          /\ did' = d
    /\ retried' = retried + 1
    /\ stage' = IF retried' < Len(failed_codes) THEN "retry" ELSE "export"
    /\ UNCHANGED <<callVars, all_codes, futures, failed_codes, table, otherVars>>

\* One turn of the sequential retry loop over failed_codes.
Retry ==
    /\ stage = "retry"
    /\ \E cc \in {failed_codes[retried + 1]} :
       \E p \in RunPagesOf(cc), b \in BannerAnswers(cc) :
       \E d \in {scrape_country(cc, p, b)} :
       \E logs \in {log_missing(missing_db, AttemptLogs(cc, d, "Retry exception"))} :
          /\ all_rows' = IF d.raised THEN all_rows ELSE all_rows \o d.rows
          /\ missing_db' = missing_db \o logs
          /\ MISSING_BUFFER' = IF ~d.raised /\ d.rows # <<>>
                               THEN NotOf(MISSING_BUFFER \o logs, cc)
                               ELSE MISSING_BUFFER \o logs
          /\ attempts' = Append(attempts, Attempt(cc, "retry", d))
          /\ pages' = p
          /\ ban' = b
          /\ did' = d
    /\ retried' = retried + 1
    /\ stage' = IF retried' < Len(failed_codes) THEN "retry" ELSE "export"
    /\ UNCHANGED <<callVars, all_codes, futures, failed_codes, table, otherVars>>

\* The end of run_scraper: nothing is exported without rows.
Export ==
    /\ stage = "export"
    /\ table' = IF all_rows = <<>> THEN <<>>
                ELSE Cols(sort_values(all_rows, Len(all_rows)))
    /\ stage' = "done"
    /\ UNCHANGED <<callVars, countryVars, all_codes, futures, all_rows, failed_codes, retried,
                   missing_db, MISSING_BUFFER, attempts, otherVars>>

NextRun == (\E cc \in RunCountries : Complete(cc)) \/ Retry \/ Export

SpecRun == InitRun /\ [][NextRun]_vars

(***************************************************************************)
(* One plan card                                                           *)
(***************************************************************************)
\* The headings of the cards: the three tiers, a tier in French, in Chinese
\* and in a Spanish plural, names of no tier, a misspelt tier, and names
\* with the words of the manual override.
Heads ==
    {<<"S", "t", "u", "d", "e", "n", "t">>, <<"I", "n", "d", "i", "v", "i", "d", "u", "a", "l">>, <<"F", "a", "m", "i", "l", "y">>, <<"F", "a", "m", "i", "l", "l", "e">>, <<"u5B66", "u751F">>, <<" ", "E", "s", "t", "u", "d", "i", "a", "n", "t", "e", "s", " ">>,
     <<"V", "o", "i", "c", "e">>, <<"P", "r", "e", "m", "i", "u", "m">>, <<"P", "l", "a", "n", " ", "4">>, <<"F", "a", "m", "i", "l", "l", "y">>, <<"P", "r", "e", "m", "i", "u", "m", " ", "D", "u", "o">>,
     <<"P", "e", "r", "s", "o", "n", "a", "l", " ", "s", "t", "u", "d", "e", "n", "t", " ", "p", "l", "a", "n">>, <<"S", "t", "a", "f", "f", " ", "p", "l", "a", "n">>, <<"F", "a", "m", "i", "l", "y", " ", "p", "e", "r", "s", "o", "n", "n", "e", "l">>,
     <<"P", "e", "r", "s", "o", "n", "a", "l", "i", "z", "e", "d", " ", "f", "a", "m", "i", "l", "y">>}

\* What the translator makes of a heading when it translates it.
English(head) ==
    CASE Lower(Strip(head)) = <<"f", "a", "m", "i", "l", "l", "e">> -> <<"F", "a", "m", "i", "l", "y">>
      [] Lower(Strip(head)) = <<"u5B66", "u751F">> -> <<"S", "t", "u", "d", "e", "n", "t">>
      [] Lower(Strip(head)) = <<"e", "s", "t", "u", "d", "i", "a", "n", "t", "e", "s">> -> <<"S", "t", "u", "d", "e", "n", "t", "s">>
      [] OTHER -> head

\* The answers of the translator: it raises, it translates, it gives the
\* text back.
Translations(head) ==
    {Translation(TRUE, <<>>), Translation(FALSE, English(head)), Translation(FALSE, head)}

PlanCards ==
    {PlanCard(id, classes, has_head, IF has_head THEN head ELSE <<>>) :
        id \in {<<>>, <<"f", "a", "m", "i", "l", "y">>}, classes \in {{}, {<<"p", "l", "a", "n">>, <<"p", "e", "r", "s", "o", "n", "a", "l">>}},
        has_head \in BOOLEAN, head \in Heads}

\* The indexes of a card in extract_plan_entries_from_dom_generic: the
\* three for which TIER_ORDER has a name, and the next.
CardIndexes == 0..Len(TIER_ORDER)

InitPlan ==
    /\ card \in PlanCards
    /\ idx \in CardIndexes
    /\ heard \in Translations(card.head)
    /\ named = NoPlan
    /\ alpha2 = <<>>
    /\ CallIdle
    /\ CountryIdle
    /\ RunIdle
    /\ InvokeIdle
    /\ DispatchIdle
    /\ CacheIdle
    /\ RestIdle

\* The names of the rows scrape_country makes of the entries: those of
\* TIER_ORDER.
TierNames(stds) == {std \in stds : \E k \in 1..Len(TIER_ORDER) : TierText[TIER_ORDER[k]] = std}

\* extract_plan_entries_from_dom_apple for a section with this one card,
\* which shows a price: the entry of the card, then, as there are less than
\* two entries, the entries of extract_plan_entries_semantic, which finds
\* the plan of the heading.
AppleCard ==
    /\ named = NoPlan
    /\ \E std \in {classify(card, heard)} :
       \E sem \in {IF card.has_head /\ PlanOfRe(_clean(card.head)) # <<>>
                   THEN {PlanOfRe(_clean(card.head))} ELSE {}} :
          named' = [by |-> "apple", std |-> std, rows |-> TierNames({std} \cup sem)]
    /\ UNCHANGED <<notPlan, card, idx, heard>>

\* extract_plan_entries_from_dom_generic for one card with a heading, the
\* card of index idx of its container, which shows a price.
GenericCard ==
    /\ named = NoPlan
    /\ card.has_head
    /\ \E std \in {standardize_plan(_clean(card.head), idx, heard)} :
          named' = [by |-> "generic", std |-> std, rows |-> TierNames({std})]
    /\ UNCHANGED <<notPlan, card, idx, heard>>

\* One card of scrape_country of spotify_scraper.py, whose h3 is the heading
\* and which shows an amount.
SpotifyCard ==
    /\ named = NoPlan
    /\ card.has_head
    /\ \E std \in {normalize_plan_name(card.head, heard)} :
          named' = [by |-> "spotify", std |-> std,
                   rows |-> IF std = <<"O", "t", "h", "e", "r">> THEN {} ELSE {std}]
    /\ UNCHANGED <<notPlan, card, idx, heard>>

NextPlan == AppleCard \/ GenericCard \/ SpotifyCard

SpecPlan == InitPlan /\ [][NextPlan]_vars

(***************************************************************************)
(* Invocations of run_apple_music_scraper                                  *)
(***************************************************************************)
\* The arguments test_countries of the invocations: None or an empty list,
\* two codes, a code to strip and to put in upper case.
CountryLists == {<<>>, <<<<"D", "E">>, <<"G", "B">>>>, <<<<" ", "c", "h">>>>}

InitInvoke ==
    /\ TEST_MODE = FALSE
    /\ TEST_COUNTRIES = BuiltInTestCountries
    /\ calls = [w \in Workers |-> NotInvoked]
    /\ files \in [OutNames -> {NoFile, OldFile}]
    /\ alpha2 = <<>>
    /\ CallIdle
    /\ CountryIdle
    /\ RunIdle
    /\ PlanIdle
    /\ DispatchIdle
    /\ CacheIdle
    /\ RestIdle

Stepped(w, c) == calls' = [calls EXCEPT ![w] = c]

\* A worker calls run_apple_music_scraper(test_mode, test_countries).
Begin(w) ==
    /\ calls[w].pc \in {"idle", "done"}
    /\ \E test_mode \in BOOLEAN, test_countries \in CountryLists :
          Stepped(w, Invocation("mode", test_mode, test_countries, Selection(FALSE, {}), "", ""))
    /\ files' = [name \in OutNames |-> File(files[name].there, files[name].by \ {w})]
    /\ UNCHANGED <<notInvoke, TEST_MODE, TEST_COUNTRIES>>

\* The same when no other invocation is under way.
BeginAlone(w) ==
    /\ \A o \in Workers : calls[o].pc \in {"idle", "done"}
    /\ Begin(w)

\* TEST_MODE = bool(test_mode)
SetMode(w) ==
    /\ calls[w].pc = "mode"
    /\ TEST_MODE' = calls[w].test_mode
    /\ Stepped(w, [calls[w] EXCEPT !.pc = "countries"])
    /\ UNCHANGED <<notInvoke, TEST_COUNTRIES, files>>

\* if TEST_MODE and test_countries: TEST_COUNTRIES = [...]
SetCountries(w) ==
    /\ calls[w].pc = "countries"
    /\ TEST_COUNTRIES' = IF TEST_MODE /\ calls[w].test_countries # <<>>
                         THEN TwoLetterCodes(calls[w].test_countries)
                         ELSE TEST_COUNTRIES
    /\ Stepped(w, [calls[w] EXCEPT !.pc = "select"])
    /\ UNCHANGED <<notInvoke, TEST_MODE, files>>

\* run_scraper() up to the pool: the choice of all_codes; with no code it
\* returns None.
Select(w) ==
    /\ calls[w].pc = "select"
    /\ \E chose \in {SelectCodes(TEST_MODE, TEST_COUNTRIES)} :
          Stepped(w, [calls[w] EXCEPT !.chose = chose,
                                      !.pc = IF chose.full \/ chose.codes # {}
                                             THEN "scrape" ELSE "return"])
    /\ UNCHANGED <<notInvoke, TEST_MODE, TEST_COUNTRIES, files>>

\* run_scraper() from the pool to its end: with rows it writes them to the
\* file named after TEST_MODE, over what the file held; without rows it
\* writes no file and returns None.
Scrape(w) ==
    /\ calls[w].pc = "scrape"
    /\ \E has_rows \in BOOLEAN :
          /\ Stepped(w, [calls[w] EXCEPT !.out = IF has_rows THEN OutName(TEST_MODE) ELSE "",
                                         !.pc = "return"])
          /\ files' = IF has_rows
                      THEN [files EXCEPT ![OutName(TEST_MODE)] = File(TRUE, {w})]
                      ELSE files
    /\ UNCHANGED <<notInvoke, TEST_MODE, TEST_COUNTRIES>>

\* return out or (the name after TEST_MODE)
Return(w) ==
    /\ calls[w].pc = "return"
    /\ Stepped(w, [calls[w] EXCEPT !.result = IF calls[w].out # "" THEN calls[w].out
                                               ELSE OutName(TEST_MODE),
                                   !.pc = "done"])
    /\ UNCHANGED <<notInvoke, TEST_MODE, TEST_COUNTRIES, files>>

Steps(w) == SetMode(w) \/ SetCountries(w) \/ Select(w) \/ Scrape(w) \/ Return(w)

\* Invocations from several workers, which may overlap.
NextInvoke == \E w \in Workers : Begin(w) \/ Steps(w)

SpecInvoke == InitInvoke /\ [][NextInvoke]_vars

\* Invocations one after the other.
NextSeq == \E w \in Workers : BeginAlone(w) \/ Steps(w)

SpecSeq == InitInvoke /\ [][NextSeq]_vars

(***************************************************************************)
(* One call of the dispatcher                                              *)
(***************************************************************************)
\* The names given to run_scraper: those of the UI, with other letter
\* cases, with spaces and a no-break space, aliases, and names of no DSP.
DspNames ==
    {<<"i", "C", "l", "o", "u", "d", "+">>, <<"i", "c", "l", "o", "u", "d", "+">>, <<" ", " ", "i", "C", "l", "o", "u", "d", "+", " ">>, <<"i", "C", "l", "o", "u", "d", "u00A0", "+">>, <<"i", "C", "l", "o", "u", "d", " ", "P", "l", "u", "s">>,
     <<"I", "C", "L", "O", "U", "D", "P", "L", "U", "S">>, <<"A", "p", "p", "l", "e", " ", "M", "u", "s", "i", "c">>, <<"a", "p", "p", "l", "e", " ", " ", " ", "m", "u", "s", "i", "c">>, <<"A", "p", "p", "l", "e", "-", "O", "n", "e">>, <<"A", "p", "p", "l", "e", " ", "O", "n", "e">>,
     <<"S", "p", "o", "t", "i", "f", "y">>, <<"N", "e", "t", "f", "l", "i", "x">>, <<"D", "i", "s", "n", "e", "y", "+">>, <<"T", "i", "d", "a", "l">>, <<>>}

\* The lists test_countries of the UI: None, one code, two codes.
RequestLists == {<<>>, <<<<"G", "B">>>>, <<<<"G", "B">>, <<"U", "S">>>>}

InitDispatch ==
    /\ request \in [dsp_name : DspNames, test_mode : BOOLEAN, test_countries : RequestLists]
    /\ reply = NoReply
    /\ alpha2 = <<>>
    /\ CallIdle
    /\ CountryIdle
    /\ RunIdle
    /\ PlanIdle
    /\ InvokeIdle
    /\ CacheIdle
    /\ RestIdle

\* run_scraper(dsp_name, test_mode, test_countries)
Dispatch ==
    /\ reply = NoReply
    /\ reply' = Dispatched(request.dsp_name, request.test_mode, request.test_countries)
    /\ UNCHANGED <<notDispatch, request>>

NextDispatch == Dispatch

SpecDispatch == InitDispatch /\ [][NextDispatch]_vars

(***************************************************************************)
(* The calls of translate_text_cached in one process                       *)
(***************************************************************************)
\* The text of the first call, and the n-th text translated after it.
FirstText == <<"F", "a", "m", "i", "l", "l", "e">>

OtherText(n) == <<"P">> \o IntStr(n)

\* How many more other texts are translated than the cache holds.
Beyond == 1

\* The import of a scraper, then the first call of translate_text_cached.
InitCache ==
    /\ \E maxsize \in {AppleMaxsize, SpotifyMaxsize} :
       \E tr \in {Translation(TRUE, <<>>), Translation(FALSE, <<"F", "a", "m", "i", "l", "y">>)} :
       \E a \in {CachedCall(Cache(maxsize, <<>>), FirstText, tr)} :
          /\ cache = a.after
          /\ first = a.value
          /\ last = [text |-> FirstText, value |-> a.value, called |-> a.called]
    /\ asked = 0
    /\ alpha2 = <<>>
    /\ CallIdle
    /\ CountryIdle
    /\ RunIdle
    /\ PlanIdle
    /\ InvokeIdle
    /\ DispatchIdle
    /\ RestIdle

\* A call with a text that was not translated before; the translator gives
\* it back as it is.
TranslateOther ==
    /\ last.text # FirstText \/ asked = 0
    /\ asked < cache.maxsize + Beyond
    /\ asked' = asked + 1
    /\ \E a \in {CachedCall(cache, OtherText(asked'), Translation(FALSE, OtherText(asked')))} :
          /\ cache' = a.after
          /\ last' = [text |-> OtherText(asked'), value |-> a.value, called |-> a.called]
    /\ UNCHANGED <<notCache, first>>

\* A later call with the text of the first call; the translator, if it is
\* called, raises, or gives one or another translation.
TranslateAgain ==
    /\ asked > 0
    /\ last.text # FirstText
    /\ \E tr \in {Translation(TRUE, <<>>), Translation(FALSE, <<"F", "a", "m", "i", "l", "y">>),
                  Translation(FALSE, <<"F", "a", "m", "i", "l", "y", " ", "p", "l", "a", "n">>)} :
       \E a \in {CachedCall(cache, FirstText, tr)} :
          /\ cache' = a.after
          /\ last' = [text |-> FirstText, value |-> a.value, called |-> a.called]
    /\ UNCHANGED <<notCache, asked, first>>

NextCache == TranslateOther \/ TranslateAgain

SpecCache == InitCache /\ [][NextCache]_vars

(***************************************************************************)
(* _normalize_number on what it returned                                   *)
(***************************************************************************)
\* How many zeros at most follow the first digits of a number.
MaxZeros == 17

\* The numbers the callers cut out of a text with \d[\d\s.,]*: digits in
\* groups, the zeros that make them large, and a decimal part.
NumberHeads ==
    {<<"1">>, <<"1", "2">>, <<"1", ".", "2">>, <<"1", ",", "5">>, <<"0">>, <<"1", " ", "2">>, <<"1", "0", ".", "9", "9">>, <<"0", "7">>}

NumberTails == {<<>>, <<".", "5">>, <<",", "5", "0">>, <<".", "1", "2", "5">>, <<",">>}

\* The digits of a number that a double has to hold.
Significant(p) ==
    LET Of(ds) == Len(ds) - IF LeadZ(ds) = Len(ds) THEN Len(ds) ELSE LeadZ(ds) + TrailZ(ds)
    IN  Of(Without(p, {".", ",", " "}))

NumberTexts ==
    {<<>>} \cup
    {p \in {h \o Zeros(n) \o t : h \in NumberHeads, n \in 0..MaxZeros, t \in NumberTails} :
        Significant(p) <= DblDig}

InitNumber ==
    /\ text \in NumberTexts
    /\ alpha2 = <<>>
    /\ babel = BabelAnswer(FALSE, <<>>)
    /\ nodes = <<>>
    /\ Blank

\* _normalize_number(text).
Normalize ==
    /\ phase = "input"
    /\ once' = _normalize_number(text)
    /\ phase' = "once"
    /\ UNCHANGED <<text, alpha2, babel, nodes, cands, pivot, best, picked, out, guess, why,
                   countryVars, runVars, planVars, invokeVars, dispatchVars, cacheVars, twice, bannerVars, parseVars, renderVars>>

\* _normalize_number of the result, when there is one.
NormalizeAgain ==
    /\ phase = "once"
    /\ once # <<>>
    /\ twice' = _normalize_number(once)
    /\ phase' = "twice"
    /\ UNCHANGED <<text, alpha2, babel, nodes, cands, pivot, best, picked, out, guess, why,
                   countryVars, runVars, planVars, invokeVars, dispatchVars, cacheVars, once, bannerVars, parseVars, renderVars>>

NextNumber == Normalize \/ NormalizeAgain

SpecNumber == InitNumber /\ [][NextNumber]_vars
(***************************************************************************)
(* The workers at the banner fetches                                       *)
(***************************************************************************)
\* What the steps of the workers leave alone.
notBanner ==
    <<callVars, countryVars, runVars, planVars, invokeVars, dispatchVars, cacheVars,
      numberVars, parseVars, renderVars>>

InitBanner ==
    /\ BannerIdle
    /\ NumberIdle
    /\ ParseIdle
    /\ RenderIdle
    /\ alpha2 = <<>>
    /\ CallIdle
    /\ CountryIdle
    /\ RunIdle
    /\ PlanIdle
    /\ InvokeIdle
    /\ DispatchIdle
    /\ CacheIdle

At(t, pc) == threads' = [threads EXCEPT ![t] = pc]

\* A worker, somewhere in scrape_country, calls fetch_banner_individual_price
\* or banner_individual_row and comes to `with BANNER_SEMAPHORE:`.
Enter(t) ==
    /\ threads[t] = "idle"
    /\ At(t, "acquire")
    /\ UNCHANGED <<notBanner, permits>>

\* BANNER_SEMAPHORE.__enter__: acquire() takes a permit when there is one and
\* blocks while there is none; then asyncio.run(_get_music_banner_text_async).
Acquire(t) ==
    /\ threads[t] = "acquire"
    /\ permits > 0
    /\ permits' = permits - 1
    /\ At(t, "fetch")
    /\ UNCHANGED notBanner

\* The fetch returns its text and final URL.
FetchReturns(t) ==
    /\ threads[t] = "fetch"
    /\ At(t, "exit")
    /\ UNCHANGED <<notBanner, permits>>

\* asyncio.run raises RuntimeError: the handler starts a thread that fetches
\* and joins it, still within the with-block.
FetchInThread(t) ==
    /\ threads[t] = "fetch"
    /\ At(t, "join")
    /\ UNCHANGED <<notBanner, permits>>

\* The thread of the handler ends, with a pair in holder or with none.
Joined(t) ==
    /\ threads[t] = "join"
    /\ At(t, "exit")
    /\ UNCHANGED <<notBanner, permits>>

FetchRaises_keeping_the_permit(t) ==
    /\ threads[t] = "fetch"
    /\ At(t, "idle")
    /\ UNCHANGED <<notBanner, permits>>

\* The fetch raises an exception that is no RuntimeError: it leaves the
\* with-block and the function.
FetchRaises(t) ==
    /\ threads[t] = "fetch"
    /\ At(t, "raise")
    /\ UNCHANGED <<notBanner, permits>>

\* BANNER_SEMAPHORE.__exit__: release(), at the end of the with-block and
\* when an exception leaves it; the worker goes on in scrape_country.
Release(t) ==
    /\ threads[t] \in {"exit", "raise"}
    /\ permits' = permits + 1
    /\ At(t, "idle")
    /\ UNCHANGED notBanner

Fetching(t) == FetchReturns(t) \/ FetchInThread(t) \/ Joined(t) \/ FetchRaises(t)

NextBanner == \E t \in PoolThreads : Enter(t) \/ Acquire(t) \/ Fetching(t) \/ Release(t)

SpecBanner == InitBanner /\ [][NextBanner]_vars

\* The same where every fetch ends (the page loads and the waits for the
\* banner have timeouts), a worker that leaves the with-block releases, and a
\* worker that finds a permit again and again gets one.
FairBanner ==
    /\ SpecBanner
    /\ \A t \in PoolThreads :
          /\ WF_vars(Fetching(t) \/ Release(t))
          /\ SF_vars(Acquire(t))
(***************************************************************************)
(* parse_all_rows                                                          *)
(***************************************************************************)
\* The most paragraphs of an article.
MaxParas == 3

\* The texts of the paragraphs, as get_text gives them: headers (with
\* footnote marks, with Euro, with digits for a country, with a code in lower
\* case, which is none), plan lines (one with a no-break space, one that ends
\* like a header, one without a number), other text and empty text.
ParaTexts ==
    {<<"P", "e", "r", "u", " ", "(", "P", "E", "N", ")">>, <<"U", "S", "A", " ", "1", ",", "2", " ", "(", "U", "S", "D", ")", " ", "3">>, <<"S", "p", "a", "i", "n", " ", "(", "E", "u", "r", "o", ")">>, <<"1", "2", " ", "(", "U", "S", "D", ")">>, <<"F", "i", "j", "i", " ", "(", "f", "j", "d", ")">>,
     <<"2", " ", "T", "B", " ", "-", " ", "R", "$", " ", "6", "6", ",", "9", "0">>, <<"2", "0", "0">> \o <<"u00A0">> \o <<"g", "b", " ", "1", ".", "2", "3", "4", ",", "5", "0", " ", "k", "r">>, <<"0", "6", "T", "B", ":", " ", "9", " ", "(", "U", "S", "D", ")">>,
     <<"6", "t", "b", ":", " ", "f", "r", "e", "e">>, <<"u00A0">>}

\* What the steps of parse_all_rows leave alone.
notParse ==
    <<callVars, countryVars, runVars, planVars, invokeVars, dispatchVars, cacheVars,
      numberVars, bannerVars, renderVars>>

InitParse ==
    /\ paras \in UNION {[1..n -> ParaTexts] : n \in 0..MaxParas}
    /\ seen = 0
    /\ plan_rows = <<>>
    /\ cur_country = <<>>
    /\ cur_ccy = <<>>
    /\ NumberIdle
    /\ BannerIdle
    /\ RenderIdle
    /\ alpha2 = <<>>
    /\ CallIdle
    /\ CountryIdle
    /\ RunIdle
    /\ PlanIdle
    /\ InvokeIdle
    /\ DispatchIdle
    /\ CacheIdle

\* The row of a plan paragraph with the match mp.
RowOf(t, mp) ==
    PlanLine(cur_country, cur_ccy, icloud_standardize_plan(PartOf(t, mp, 3), PartOf(t, mp, 7)),
             parse_numeric_price(Strip(PartOf(t, mp, 11))), Strip(PartOf(t, mp, 11)))

\* One round of the loop over paras: an empty text is passed over, a country
\* header sets cur_country and cur_ccy, a plan paragraph under a country and
\* a currency gives a row.
Paragraph_forgetting_the_country ==
    /\ seen < Len(paras)
    /\ seen' = seen + 1
    /\ \E t \in {norm(paras[seen + 1])} :
       \E mc \in {IF t = <<>> THEN <<>> ELSE MatchParts(COUNTRY_RE, t)} :
       \E mp \in {IF t = <<>> \/ mc # <<>> THEN <<>> ELSE MatchParts(icloud_PLAN_RE, t)} :
          /\ cur_country' = IF mc # <<>> THEN WithoutDigitsAtEnd(Strip(PartOf(t, mc, 2)))
                            ELSE <<>>
          /\ cur_ccy' = IF mc # <<>> THEN Strip(PartOf(t, mc, 7)) ELSE cur_ccy
          /\ plan_rows' = IF mp # <<>> /\ cur_country # <<>> /\ cur_ccy # <<>>
                          THEN Append(plan_rows, RowOf(t, mp))
                          ELSE plan_rows
    /\ UNCHANGED <<notParse, paras>>

Paragraph ==
    /\ seen < Len(paras)
    /\ seen' = seen + 1
    /\ \E t \in {norm(paras[seen + 1])} :
       \E mc \in {IF t = <<>> THEN <<>> ELSE MatchParts(COUNTRY_RE, t)} :
       \E mp \in {IF t = <<>> \/ mc # <<>> THEN <<>> ELSE MatchParts(icloud_PLAN_RE, t)} :
          /\ cur_country' = IF mc # <<>> THEN WithoutDigitsAtEnd(Strip(PartOf(t, mc, 2)))
                            ELSE cur_country
          /\ cur_ccy' = IF mc # <<>> THEN Strip(PartOf(t, mc, 7)) ELSE cur_ccy
          /\ plan_rows' = IF mp # <<>> /\ cur_country # <<>> /\ cur_ccy # <<>>
                          THEN Append(plan_rows, RowOf(t, mp))
                          ELSE plan_rows
    /\ UNCHANGED <<notParse, paras>>

NextParse == Paragraph

SpecParse == InitParse /\ [][NextParse]_vars
(***************************************************************************)
(* run_and_render                                                          *)
(***************************************************************************)
\* ",".join(codes) for a list of strings
RECURSIVE JoinCommas(_)
JoinCommas(codes) ==
    IF codes = <<>> THEN <<>>
    ELSE IF Len(codes) = 1 THEN codes[1]
    ELSE codes[1] \o <<",">> \o JoinCommas(Tail(codes))

\* result_key(dsp_name, mode_label, country_codes), for distinct codes
result_key(dsp_name, mode_label, country_codes) ==
    dsp_name \o <<":", ":">> \o mode_label \o <<":", ":">>
        \o (IF country_codes # <<>>
            THEN JoinCommas(sorted({country_codes[k] : k \in 1..Len(country_codes)}))
            ELSE <<"A", "L", "L">>)

\* The longest time a run is followed, and the time between two rounds of
\* the loop, in tenths of a second.
MaxElapsed == 280

Round == 70

RenderDsps == {<<"A", "p", "p", "l", "e", " ", "M", "u", "s", "i", "c">>, <<"D", "i", "s", "n", "e", "y", "+">>}

RenderModes == {<<"T", "e", "s", "t">>, <<"F", "u", "l", "l">>}

RenderCodes == {<<>>, <<<<"G", "B">>, <<"D", "E">>>>}

\* What the steps of run_and_render leave alone.
notRender ==
    <<callVars, countryVars, runVars, planVars, invokeVars, dispatchVars, cacheVars,
      numberVars, bannerVars, parseVars>>

InitRender ==
    /\ RenderIdle
    /\ NumberIdle
    /\ BannerIdle
    /\ ParseIdle
    /\ alpha2 = <<>>
    /\ CallIdle
    /\ CountryIdle
    /\ RunIdle
    /\ PlanIdle
    /\ InvokeIdle
    /\ DispatchIdle
    /\ CacheIdle

\* The button is pressed: the page is drawn anew, progress = st.progress(0),
\* status = st.empty(), and the scraper is submitted to the executor.
Press ==
    /\ ui.pc \in {"idle", "crashed"}
    /\ \E dsp_name \in RenderDsps, mode_label \in RenderModes, codes \in RenderCodes :
          ui' = Render("check", dsp_name, mode_label, codes,
                       estimate_expected_seconds(dsp_name, mode_label, codes), 0,
                       "running", FALSE, 0, NoNum, FALSE, FALSE)
    /\ UNCHANGED <<notRender, results>>

\* The worker thread: run_scraper returns a path, whose file is there or is
\* not, or it raises.
Finish ==
    /\ ui.future = "running"
    /\ \E how \in {"returned", "raised"}, there \in BOOLEAN :
          /\ how = "raised" => ~there
          /\ ui' = [ui EXCEPT !.future = how, !.there = there]
    /\ UNCHANGED <<notRender, results>>

\* while not future.done():
Check ==
    /\ ui.pc = "check"
    /\ ui' = [ui EXCEPT !.pc = IF ui.future = "running" THEN "show" ELSE "result"]
    /\ UNCHANGED <<notRender, results>>

\* The body of the loop: the estimate is shown on the bar and in the status
\* line; then time.sleep(0.35).
Show ==
    /\ ui.pc = "show"
    /\ ui.elapsed + Round <= MaxElapsed
    /\ \E elapsed \in {ui.elapsed, ui.elapsed + Round} :
          ui' = [ui EXCEPT !.elapsed = elapsed,
                           !.progress = pct_est(elapsed, ui.expected_total),
                           !.status = pct_est(elapsed, ui.expected_total),
                           !.pc = "check"]
    /\ UNCHANGED <<notRender, results>>

\* excel_path = future.result(): when it raises, progress.progress(0),
\* nice_error_box(e), return.
Result ==
    /\ ui.pc = "result"
    /\ ui' = IF ui.future = "raised"
             THEN [ui EXCEPT !.progress = 0, !.error = TRUE, !.pc = "idle"]
             ELSE [ui EXCEPT !.progress = 100, !.status = 100, !.pc = "load"]
    /\ UNCHANGED <<notRender, results>>

\* load_excel_as_df(excel_path) raises when the file is not there; else the
\* success box is shown and the result stored under result_key(...).
Load ==
    /\ ui.pc = "load"
    /\ ui' = IF ui.there THEN [ui EXCEPT !.success = TRUE, !.pc = "idle"]
             ELSE [ui EXCEPT !.pc = "crashed"]
    /\ results' =
          IF ui.there
          THEN [k \in DOMAIN results \cup {result_key(ui.dsp_name, ui.mode_label, ui.codes)} |->
                  IF k = result_key(ui.dsp_name, ui.mode_label, ui.codes)
                  THEN [dsp_name |-> ui.dsp_name, test_mode |-> ui.mode_label = <<"T", "e", "s", "t">>,
                        codes |-> ui.codes]
                  ELSE results[k]]
          ELSE results
    /\ UNCHANGED notRender

NextRender == Press \/ Finish \/ Check \/ Show \/ Result \/ Load

SpecRender == InitRender /\ [][NextRender]_vars
(***************************************************************************)
(* Properties of pick_best_price_token (under SpecPick)                    *)
(***************************************************************************)
Done == phase = "done"

CandSet == {cands[n] : n \in 1..Len(cands)}

SameFlags(c, d) ==
    /\ c.has_month = d.has_month
    /\ c.has_intro = d.has_intro
    /\ c.has_then = d.has_then

Both(c) == c.has_month /\ c.has_then

\* The candidates that start after the last transition marker; none when the
\* text has no such marker.
AfterPivot == IF pivot = NoPivot THEN {} ELSE {c \in CandSet : c.start > pivot}

PromoExample == <<"3", " ", "m", "o", "n", "t", "h", "s", " ", "f", "o", "r", " ", "$", "0", ".", "9", "9", ",", " ", "t", "h", "e", "n", " ", "$", "1", "0", ".", "9", "9", "/", "m", "o", "n", "t", "h">>

\* C1: among monthly candidates with the same three context flags the one
\* with the smaller value is never the one returned, so a value below 1 is
\* never returned when a value of at least 1 has the same flags; for the text
\* "3 months for $0.99, then $10.99/month" the value returned is 10.99.
C1_LargerOfSameFlagsWins ==
    Done =>
      /\ \A c, d \in CandSet :
            (c.has_month /\ d.has_month /\ SameFlags(c, d) /\ c.value < d.value)
               => best # c
      /\ \A c, d \in CandSet :
            (c.has_month /\ d.has_month /\ SameFlags(c, d)
               /\ c.value < 100 /\ d.value >= 100)
               => picked # [token |-> c.token, value |-> c.value]
      /\ text = PromoExample => picked = [token |-> <<"$", "1", "0", ".", "9", "9">>, value |-> 1099]

\* An intro price below 1 and a recurring price in one window that holds a
\* monthly, a transition and an intro marker; the recurring price is returned.
C1_Witness ==
    /\ Done
    /\ \E c, d \in CandSet :
          /\ c.has_month /\ c.has_then /\ c.has_intro /\ SameFlags(c, d)
          /\ c.value < 100 /\ d.value >= 100
          /\ best = d

\* C2 as the specification states it: whenever some candidate has both
\* has_month and has_then, the result is one of the candidates with both
\* flags.
C2_Original ==
    (Done /\ \E c \in CandSet : Both(c)) => Both(best)

\* C2, amended: whenever some candidate with a value of at least 1 has both
\* has_month and has_then, the result is a candidate with both flags and a
\* value of at least 1; it is intro-flagged only if all of those are, and no
\* such candidate with the same intro flag has a larger value.
C2_BothFlagsWinFromOneUp ==
    (Done /\ \E c \in CandSet : Both(c) /\ c.value >= 100) =>
      /\ best \in CandSet /\ Both(best) /\ best.value >= 100
      /\ \A d \in CandSet :
            (Both(d) /\ d.value >= 100) =>
               /\ best.has_intro => d.has_intro
               /\ d.has_intro = best.has_intro => d.value <= best.value

\* A candidate with both flags and a value of at least 1 is returned although
\* a monthly candidate with no transition marker has no smaller value.
C2_Witness ==
    /\ Done
    /\ \E c, d \in CandSet :
          /\ Both(c) /\ c.value >= 100
          /\ d.has_month /\ ~d.has_then /\ d.value >= c.value
          /\ best = c

C4_NoneOnlyIfAllIntro ==
    (Done /\ (\A c \in CandSet : ~c.has_month) /\ AfterPivot = {}) =>
      /\ picked = None => \A c \in CandSet : c.has_intro
      /\ (\E c \in CandSet : ~c.has_intro)
            => (best \in CandSet /\ \A d \in CandSet : d.value <= best.value)

\* C5 as the specification states it: with no monthly candidate and some
\* candidate after the last transition marker, the result is the candidate of
\* the highest value among those after the marker.
C5_Original ==
    (Done /\ (\A c \in CandSet : ~c.has_month) /\ AfterPivot # {}) =>
      /\ best \in AfterPivot
      /\ \A d \in AfterPivot : d.value <= best.value

\* C5, amended: with no monthly candidate and some candidate after the last
\* transition marker, the result is a candidate after the marker: the one of
\* the highest value among those not intro-flagged if there is one, else the
\* one of the highest value.
C5_PlainAfterPivotFirst ==
    (Done /\ (\A c \in CandSet : ~c.has_month) /\ AfterPivot # {}) =>
      LET plain == {c \in AfterPivot : ~c.has_intro}
          pool  == IF plain # {} THEN plain ELSE AfterPivot
      IN  /\ best \in pool
          /\ \A d \in pool : d.value <= best.value

\* After the marker an intro-flagged candidate has the higher value and the
\* one that is not intro-flagged is returned.
C5_Witness ==
    /\ Done
    /\ \A c \in CandSet : ~c.has_month
    /\ \E c, d \in AfterPivot :
          c.has_intro /\ ~d.has_intro /\ c.value > d.value /\ best = d

OccursAt(w, s, i) == i + Len(w) - 1 <= Len(s) /\ SubSeq(s, i, i + Len(w) - 1) = w

\* Going right from position j, the first character that is not white space
\* is a digit.
DigitAfter(s, j) ==
    \E k \in j..Len(s) : s[k] \in Digits /\ \A m \in j..(k - 1) : s[m] \in SpaceChars

\* Going left from position j, the first character that is not white space is
\* a digit.
DigitBefore(s, j) ==
    \E k \in 1..j : s[k] \in Digits /\ \A m \in (k + 1)..j : s[m] \in SpaceChars

\* s holds a currency token next to a number, white space apart at most.
HasPricePair(s) ==
    \E n \in 1..Len(CurrencyWords) : \E i \in 1..Len(s) :
       /\ OccursAt(CurrencyWords[n], s, i)
       /\ DigitAfter(s, i + Len(CurrencyWords[n])) \/ DigitBefore(s, i - 1)

HasDigit(s) == \E k \in 1..Len(s) : s[k] \in Digits

\* C6: for a text with no currency token next to a number the selector finds
\* no candidate and returns None; and whatever it returns holds a currency
\* token next to a number.
C6_NoPairNoPrice ==
    Done =>
      /\ ~HasPricePair(text) => (cands = <<>> /\ picked = None)
      /\ picked # None => HasPricePair(picked.token)

\* "Free for 3 months": a number, no currency token next to it, None returned.
C6_Witness ==
    /\ Done
    /\ text = <<"F", "r", "e", "e", " ", "f", "o", "r", " ", "3", " ", "m", "o", "n", "t", "h", "s">>
    /\ HasDigit(text) /\ ~HasPricePair(text)
    /\ picked = None


(***************************************************************************)
(* The default currency and the detections                                 *)
(***************************************************************************)
Contains(w, s) == \E i \in 1..Len(s) : OccursAt(w, s, i)

\* C7: for every country of the override table the default-currency resolver
\* returns the table's value, whatever the locale data answers: after either
\* scraper's resolver ran for a country of its table, the result is the
\* table's currency.
C7_TableBeatsLocaleData ==
    /\ (phase = "apple_default" /\ HasKey(HARDCODE_FALLBACKS, Upper(alpha2)))
          => out.iso = Lookup(HARDCODE_FALLBACKS, Upper(alpha2))
    /\ (phase = "spotify_default" /\ HasKey(SPOTIFY_HARDCODE_FALLBACKS, Upper(alpha2)))
          => out.iso = Lookup(SPOTIFY_HARDCODE_FALLBACKS, Upper(alpha2))

\* The table and the cleaned text of the detection that ran.
StrongTable == IF phase = "spotify_text" THEN SPOTIFY_STRONG_TOKENS ELSE STRONG_TOKENS

Detecting == phase \in {"apple_text", "apple_display", "spotify_text"}

\* C8: when a detection ran on a text in which a strong token occurs, with or
\* without an ambiguous token, it returns with the source "symbol" the
\* currency of the first row of its STRONG_TOKENS table that occurs in the
\* text, wherever in the text that token stands, and never a country default.
C8_FirstStrongRowDecides ==
    Detecting =>
      \A n \in 1..Len(StrongTable) :
         (/\ RowSearch(StrongTable[n], _clean(text)) # <<>>
          /\ \A k \in 1..(n - 1) : RowSearch(StrongTable[k], _clean(text)) = <<>>)
            => (out.iso = StrongTable[n].iso /\ out.src = "symbol")

\* A bare $ before US$ for Kuwait, and the euro sign before US$: US dollars,
\* from the symbol, not the dinar and not the euro.
C8_Witness ==
    /\ phase = "apple_display"
    /\ text \in {<<"$", "4", ".", "9", "9", " ", "U", "S", "$", "4", ".", "9", "9">>, <<"4", ",", "9", "9", " ", "u20AC", " ", "U", "S", "$", "4", ".", "9", "9">>}
    /\ alpha2 = <<"K", "W">>
    /\ out.iso = <<"U", "S", "D">> /\ out.src = "symbol"
    /\ out.iso # default_currency_for_alpha2(alpha2, babel)

\* C9: a detection never returns TRY because of the word Try: for a text with
\* the word "Try", without the code written in capitals and without the lira
\* sign, and a country other than Turkey, the currency returned is not TRY.
C9_TryWordIsNoCurrency ==
    (/\ Detecting
     /\ Contains(<<"T", "r", "y", " ">>, text)
     /\ ~Contains(<<"T", "R", "Y">>, text) /\ ~Contains(<<"u20BA">>, text)
     /\ alpha2 # <<"T", "R">>)
       => out.iso # <<"T", "R", "Y">>

(***************************************************************************)
(* The dollar-sign heuristic, on a card's entry                            *)
(***************************************************************************)
BareDollar == out.raw = <<"$">>

DollarDefault == default_currency_for_alpha2(alpha2, babel) \in DOLLAR_CURRENCIES

\* An explicit US$, $US or USD in the card's text, in either case.
UsdInContext ==
    \E w \in {<<"u", "s", "$">>, <<"$", "u", "s">>, <<"u", "s", "d">>} : Contains(w, Lower(text))

\* The rule the heuristic is to apply to the entry, "" for none.
RuleDue ==
    IF ~BareDollar \/ DollarDefault THEN ""
    ELSE IF UsdInContext THEN "context-usd"
    ELSE IF alpha2 \in {<<"K", "W">>, <<"Q", "A">>, <<"B", "H">>, <<"O", "M">>} THEN "gcc-usd"
    ELSE IF picked.value <= 50 * 100 THEN "small-$-usd"
    ELSE ""

DefaultOfScraper ==
    IF phase = "spotify_text" THEN spotify_default_currency_for_alpha2(alpha2, babel)
    ELSE default_currency_for_alpha2(alpha2, babel)

\* The text holds a yen sign and nothing else that names a currency: no
\* dollar sign, no other currency sign, and no letters but those of "/month".
OnlyYenSign(s) ==
    /\ \E y \in YenSigns : In(y, s)
    /\ \A k \in 1..Len(s) : s[k] \in YenSigns \cup Digits \cup {" ", "/"} \cup {"m", "o", "n", "t", "h"}

\* C11: a detection run on a text whose only currency marker is the yen sign
\* returns CNY for CN, JPY for JP and the country's territory default
\* otherwise.
C11_YenFollowsCountry ==
    (Detecting /\ OnlyYenSign(text)) =>
        out.iso = (IF Upper(alpha2) = <<"C", "N">> THEN <<"C", "N", "Y">>
                   ELSE IF Upper(alpha2) = <<"J", "P">> THEN <<"J", "P", "Y">>
                   ELSE DefaultOfScraper)

(***************************************************************************)
(* The banner override of a suspicious Individual price                    *)
(***************************************************************************)
\* The first path of the country answers with a page of its own, whose plan
\* entries scrape_country reads.
OwnPage ==
    /\ pages # <<>>
    /\ ~pages[1].raises /\ pages[1].ok200
    /\ pages[1].final_cc = <<>>
    /\ alpha2 = <<"U", "S">> \/ (~pages[1].hub_url /\ ~pages[1].hub_html)

\* The Individual price of the page is under its Student price or under the
\* sanity threshold.
IndividualSuspect(e) ==
    /\ "Individual" \in DOMAIN e
    /\ \/ e["Individual"].val < SanityFloor * 100
       \/ ("Student" \in DOMAIN e /\ e["Individual"].val < e["Student"].val)

\* The banner gives no price for the country: it raises, it is of another
\* storefront, or it shows none.
NoOverride == ban.raises \/ ban.store # alpha2 \/ ban.val = NoNum

\* The row of a plan among the rows returned, as a set (empty or one row).
RowsOf(plan) == {did.rows[n] : n \in {k \in 1..Len(did.rows) : did.rows[k].Plan = plan}}

\* C13: after scrape_country read a page of the country, the banner override
\* was attempted exactly when the Individual price is suspect; when it gives
\* nothing the Individual row is returned with the page's price; and the
\* Student and Family rows carry the page's prices.
C13_OverrideKeepsOriginal ==
    (stage = "scraped" /\ OwnPage) =>
        /\ IndividualSuspect(pages[1].entries) => did.fetched >= 1
        /\ ~IndividualSuspect(pages[1].entries) => did.fetched = 0
        /\ (IndividualSuspect(pages[1].entries) /\ NoOverride)
              => \E r \in RowsOf("Individual") :
                    r.Value = pages[1].entries["Individual"].val
        /\ \A plan \in {"Student", "Family"} : \A r \in RowsOf(plan) :
              r.Value = pages[1].entries[plan].val

(***************************************************************************)
(* The run                                                                 *)
(***************************************************************************)
CodesOf(seq, field) == {seq[k][field] : k \in 1..Len(seq)}

\* C12: after a run, each requested country has contributed at least one
\* row to the rows of the run or has at least one record, with its country,
\* code, url, reason and time, in the table `missing`.
C12_RowOrMissingRecord ==
    stage = "done" =>
        \A k \in 1..Len(all_codes) :
            \/ all_codes[k] \in CodesOf(all_rows, "Code")
            \/ all_codes[k] \in CodesOf(missing_db, "country_code")

\* C17: the exported table holds exactly the rows gathered and is strictly
\* increasing by (Country, Plan in tier order), so that it is the same for
\* every order in which the futures complete and the retries add rows.
C17_TableOrdered ==
    (stage = "done" /\ all_rows # <<>>) =>
        /\ Len(table) = Len(all_rows)
        /\ {table[k] : k \in 1..Len(table)} = {Cols(all_rows)[k] : k \in 1..Len(all_rows)}
        /\ \A i \in 1..Len(table) : \A j \in 1..Len(table) :
              i < j => RowLess(table[i], table[j])

\* A run where a retried country gave rows, and the rows came in another
\* order than that of the table.
C17_Witness ==
    /\ stage = "done"
    /\ Len(table) >= 5
    /\ \E k \in 1..Len(failed_codes) : failed_codes[k] \in CodesOf(table, "Code")
    /\ \E i \in 1..Len(all_rows) : \E j \in 1..Len(all_rows) :
          i < j /\ RowLess(all_rows[j], all_rows[i])
    /\ table # Cols(all_rows)

(***************************************************************************)
(* Plan cards                                                              *)
(***************************************************************************)
\* The names of the tiers an extractor knows.
TierWords(by) ==
    IF by = "spotify" THEN {Lower(STANDARD_PLAN_NAMES[n]) : n \in 1..Len(STANDARD_PLAN_NAMES)}
    ELSE {Lower(TierText[TIER_ORDER[k]]) : k \in 1..Len(TIER_ORDER)} \cup {<<"p", "e", "r", "s", "o", "n", "a", "l">>}

\* The card under study names no tier: not by its id or its classes, not by
\* a tier name in its heading or in the translation of its heading, not by
\* a word of PLAN_RE, not by a close match.
NamesNoTier ==
    /\ named.by # ""
    /\ card.has_head
    /\ Lower(card.id) \notin TierWords(named.by)
    /\ \A k \in card.classes : Lower(k) \notin TierWords(named.by)
    /\ \A w \in TierWords(named.by) :
          /\ ~Contains(w, Lower(card.head))
          /\ ~Contains(w, translate_text_cached(card.head, heard))
    /\ PlanOfRe(card.head) = <<>>
    /\ get_close_matches(translate_text_cached(Strip(card.head), heard)) = <<>>
    /\ ~Found(Words(<<Str(<<"p", "e", "r", "s", "o", "n", "a", "l">>), Str(<<"p", "e", "r", "s", "o", "n", "n", "e", "l">>), Str(<<"s", "t", "a", "f", "f">>)>>),
              Lower(card.head))

\* C14: a card whose label matches no canonical tier gives no row, under
\* no tier's name.
C14_NoTierNoRow == NamesNoTier => named.rows = {}

\* The heading of the card under study has one of the words of the manual
\* override.
OverrideWord ==
    /\ named.by # ""
    /\ card.has_head
    /\ Found(Words(<<Str(<<"p", "e", "r", "s", "o", "n", "a", "l">>), Str(<<"p", "e", "r", "s", "o", "n", "n", "e", "l">>), Str(<<"s", "t", "a", "f", "f">>)>>),
             Lower(card.head))

\* C15: a label with the word personal, staff or personnel is named
\* Individual, whatever other tier it names.
C15_OverrideWordIsIndividual == OverrideWord => named.std = <<"I", "n", "d", "i", "v", "i", "d", "u", "a", "l">>

(***************************************************************************)
(* Invocations                                                             *)
(***************************************************************************)
\* What the arguments of an invocation alone say it scrapes, for a full
\* run and for a test run with a list of its own.
OwnSelection(c) ==
    IF c.test_mode
    THEN Selection(FALSE, {Upper(Strip(c.test_countries[k])) : k \in 1..Len(c.test_countries)})
    ELSE Selection(TRUE, {})

\* C16: of invocations that may overlap, each one that is a full run or
\* brings its own list of countries scrapes the countries and returns the
\* file name that its own arguments determine.
C16_OwnArgumentsDecide ==
    \A w \in Workers :
        (calls[w].pc = "done" /\ (~calls[w].test_mode \/ calls[w].test_countries # <<>>)) =>
            /\ calls[w].chose = OwnSelection(calls[w])
            /\ calls[w].result = OutName(calls[w].test_mode)

\* C18: of invocations made one after the other, a test run without a list
\* of countries scrapes the test selection built into the module.
C18_NoListMeansBuiltIn ==
    \A w \in Workers :
        (calls[w].pc = "done" /\ calls[w].test_mode /\ calls[w].test_countries = <<>>) =>
            calls[w].chose =
                Selection(FALSE, {BuiltInTestCountries[k] : k \in 1..Len(BuiltInTestCountries)})

(***************************************************************************)
(* The dispatcher and the translation cache                                *)
(***************************************************************************)
\* C19: a call of run_scraper with a name of iCloud+, in test mode and with
\* a list of countries, does not fail on the passing of the arguments, and
\* the iCloud+ scraper runs with the list of countries of the call.
C19_ICloudTakesTheList ==
    (/\ reply # NoReply
     /\ DspKind(request.dsp_name) = "icloud_plus"
     /\ request.test_mode
     /\ request.test_countries # <<>>) =>
        /\ reply.raised = ""
        /\ reply.kind = "icloud_plus"
        /\ "test_countries" \in DOMAIN reply.args
        /\ reply.args.test_countries = request.test_countries

\* C20: every later call of translate_text_cached with the text of the
\* first call returns what the first call returned, without a call of the
\* translator.
C20_CachedForLife ==
    (asked > 0 /\ last.text = FirstText) =>
        /\ ~last.called
        /\ last.value = first

(***************************************************************************)
(* The Source of a row                                                     *)
(***************************************************************************)
\* The price and currency of a row are those the page of some path of the
\* country shows for the plan of the row.
FromPage(row) ==
    \E k \in 1..Len(pages) :
        /\ row.Plan \in DOMAIN pages[k].entries
        /\ pages[k].entries[row.Plan] = Entry(row.Value, row.Currency)

\* The price and currency of a row are those of the banner.
FromBanner(row) == ~ban.raises /\ Entry(row.Value, row.Currency) = Entry(ban.val, ban.cur)

\* C21: each row scrape_country returns has a Source that names the path its
\* price came from: a row of Source "apple.com page" has the price the page
\* shows for its plan, and a row whose price is the banner's and not the
\* page's has the Source of the banner.
C21_SourceNamesThePath ==
    stage = "scraped" =>
        \A n \in 1..Len(did.rows) :
            /\ did.rows[n].Source = "apple.com page" => FromPage(did.rows[n])
            /\ (FromBanner(did.rows[n]) /\ ~FromPage(did.rows[n]))
                  => did.rows[n].Source = "music.apple.com banner (fallback)"

(***************************************************************************)
(* The rows of the exported table                                          *)
(***************************************************************************)
\* C22: the table run_scraper exports has at most one row for a country
\* code and a plan, the plan of each row is a tier of TIER_ORDER, each row
\* has a price, and the rows of one country stand in tier order.
C22_OneRowPerPlan ==
    stage = "done" =>
        /\ \A i \in 1..Len(table) : \A j \in 1..Len(table) :
              (table[i].Code = table[j].Code /\ table[i].Plan = table[j].Plan) => i = j
        /\ \A i \in 1..Len(table) :
              /\ table[i].Plan \in {"Student", "Individual", "Family"}
              /\ table[i].Value # NoNum
        /\ \A i \in 1..Len(table) : \A j \in 1..Len(table) :
              (i < j /\ table[i].Code = table[j].Code)
                 => PlanCode(table[i].Plan) < PlanCode(table[j].Plan)

\* A run whose table holds the three rows of a page of one country, the one
\* row of the banner for another, and rows of a country that was retried.
C22_Witness ==
    /\ stage = "done"
    /\ \E c \in CodesOf(table, "Code") :
          Cardinality({k \in 1..Len(table) : table[k].Code = c}) = 3
    /\ \E k \in 1..Len(all_rows) :
          all_rows[k].Source = "music.apple.com banner (fallback)"
    /\ \E k \in 1..Len(failed_codes) : failed_codes[k] \in CodesOf(table, "Code")

(***************************************************************************)
(* _normalize_number on its own output                                     *)
(***************************************************************************)
\* The characters of a string.
CharsOf(s) == {s[k] : k \in 1..Len(s)}

\* C23, as stated: _normalize_number gives back every non-empty result of
\* its own unchanged.
C23_Original ==
    phase = "twice" => twice = once

\* C23, amended: _normalize_number gives back unchanged every result of its
\* own that is in plain notation (a number under ten to the power 16).
C23_IdempotentInPlainNotation ==
    (phase = "twice" /\ "e" \notin CharsOf(once)) => twice = once

\* A number with a decimal comma and separators, whose result differs from
\* it and is given back unchanged.
C23_Witness ==
    /\ phase = "twice"
    /\ "," \in CharsOf(text)
    /\ Len(text) > 8
    /\ "e" \notin CharsOf(once)
    /\ once # text
    /\ twice = once

(***************************************************************************)
(* Redirects                                                               *)
(***************************************************************************)
\* scrape_country detects a redirect on the page p of the country cc: its
\* final URL is the US hub, or of a storefront that is not the country's,
\* or its canonical URL is the US hub, or it has no plan entries and the
\* content of the US hub.
RedirectDetected(cc, p) ==
    /\ ~p.raises
    /\ \/ p.hub_url
       \/ p.final_cc # <<>> /\ ~_storefront_equivalent(cc, p.final_cc)
       \/ p.ok200 /\ p.hub_html
       \/ p.ok200 /\ DOMAIN p.entries = {} /\ p.us_content

\* The result of the banner fallback after a redirect: no row, or the one
\* Individual row of the banner, marked as redirected and without a page.
RedirectRows(rows) ==
    \/ rows = <<>>
    \/ /\ Len(rows) = 1
       /\ rows[1].Plan = "Individual"
       /\ rows[1].Source = "music.apple.com banner (fallback)"
       /\ rows[1].Redirected
       /\ ~rows[1].Has_Apple_Music_Page

\* C24: when scrape_country of a country other than US detects a redirect
\* on the first page it gets, it returns the result of the banner fallback
\* and no row of a page; and each row of Source "apple.com page" has
\* Redirected = False.
C24_RedirectGivesBannerOnly ==
    (stage = "scraped" /\ alpha2 # <<"U", "S">> /\ ~did.raised) =>
        /\ RedirectDetected(alpha2, pages[1]) => RedirectRows(did.rows)
        /\ \A n \in 1..Len(did.rows) :
              did.rows[n].Source = "apple.com page" => ~did.rows[n].Redirected

(***************************************************************************)
(* The attempts of a run                                                   *)
(***************************************************************************)
\* The places in the log of the attempts on the country cc by a loop.
AttemptsOf(cc, loop) ==
    {k \in 1..Len(attempts) : attempts[k].code = cc /\ attempts[k].loop = loop}

\* C25: in a run each requested country is attempted by the pool once (no
\* more, and once when the pool is through); it is retried only when its
\* attempt by the pool raised, once (no more, and once when the run is
\* through), after every attempt of the pool; and its rows are added to
\* the rows of the run by at most one attempt.
C25_OnePoolAttemptOneRetry ==
    /\ \A k \in 1..Len(all_codes) :
          /\ Cardinality(AttemptsOf(all_codes[k], "pool"))
                = (IF all_codes[k] \in futures THEN 0 ELSE 1)
          /\ Cardinality(AttemptsOf(all_codes[k], "retry")) <= 1
          /\ \A r \in AttemptsOf(all_codes[k], "retry") :
                \E q \in AttemptsOf(all_codes[k], "pool") : attempts[q].raised
          /\ stage = "done" =>
                \A q \in AttemptsOf(all_codes[k], "pool") :
                    attempts[q].raised => AttemptsOf(all_codes[k], "retry") # {}
          /\ Cardinality({a \in 1..Len(attempts) :
                            /\ attempts[a].code = all_codes[k]
                            /\ ~attempts[a].raised
                            /\ attempts[a].rows > 0}) <= 1
          /\ Cardinality({n \in 1..Len(all_rows) : all_rows[n].Code = all_codes[k]})
                <= Len(TIER_ORDER)
    /\ \A a \in 1..Len(attempts) :
          /\ \E k \in 1..Len(all_codes) : attempts[a].code = all_codes[k]
          /\ attempts[a].loop = "retry" =>
                /\ futures = {}
                /\ \A b \in 1..Len(attempts) : attempts[b].loop = "pool" => b < a
    /\ stage \notin {"pool", "idle"} => futures = {}

\* A run of three countries of which two raised in the pool, one of them
\* again in the retry, while the other gave rows there, and the third
\* returned no row and was not tried again.
C25_Witness ==
    /\ stage = "done"
    /\ Len(all_codes) = 3
    /\ Len(failed_codes) = 2
    /\ \E a \in 1..Len(attempts) :
          attempts[a].loop = "retry" /\ attempts[a].raised
    /\ \E a \in 1..Len(attempts) :
          attempts[a].loop = "retry" /\ ~attempts[a].raised /\ attempts[a].rows > 0
    /\ \E a \in 1..Len(attempts) :
          attempts[a].loop = "pool" /\ ~attempts[a].raised /\ attempts[a].rows = 0

(***************************************************************************)
(* The two logs of what is missing                                         *)
(***************************************************************************)
\* C26: when run_scraper is through, MISSING_BUFFER has no record of a
\* country that has a row among the rows of the run, and it holds the
\* records of the table `missing`.
C26_BufferAgreesWithTable ==
    stage = "done" =>
        /\ \A k \in 1..Len(MISSING_BUFFER) :
              MISSING_BUFFER[k].country_code \notin CodesOf(all_rows, "Code")
        /\ MISSING_BUFFER = missing_db

(***************************************************************************)
(* The file behind the returned path                                       *)
(***************************************************************************)
\* C27: when an invocation of run_apple_music_scraper returns a path, the
\* file at that path is there and holds what this invocation wrote.
C27_ReturnedFileIsOwn ==
    [][\A w \in Workers :
          (calls[w].pc = "return" /\ calls'[w].pc = "done") =>
              files'[calls'[w].result] = File(TRUE, {w})]_vars

(***************************************************************************)
(* The semaphore of the banner fetches                                     *)
(***************************************************************************)
\* The worker is in a banner fetch.
Inside(t) == threads[t] \in {"fetch", "join"}

\* The worker has a permit of BANNER_SEMAPHORE.
Holding(t) == threads[t] \in {"fetch", "join", "exit", "raise"}

\* C28: at most 3 of the 6 workers are in a banner fetch at any time; a
\* worker that waits for BANNER_SEMAPHORE gets it, and one that has it
\* releases it and goes on, also when the fetch raises.
C28_ThreeFetchAtMost ==
    /\ [](Cardinality({t \in PoolThreads : Inside(t)}) <= BannerPermits)
    /\ \A t \in PoolThreads : (threads[t] = "acquire" \/ Holding(t)) ~> (threads[t] = "idle")

\* Three workers wait for the semaphore while three have it: one fetches,
\* one joins the thread of the handler, one leaves with an exception.
C28_Witness ==
    /\ permits = 0
    /\ Cardinality({t \in PoolThreads : threads[t] = "acquire"}) = MAX_WORKERS - BannerPermits
    /\ \E a, b, c \in PoolThreads :
          threads[a] = "fetch" /\ threads[b] = "join" /\ threads[c] = "raise"

(***************************************************************************)
(* The paragraphs of the iCloud+ article                                   *)
(***************************************************************************)
\* What a paragraph of the text t is: a country header, and what it names, or
\* a plan paragraph, or neither.
ParaKindRec(header, plan, country, ccy) ==
    [header |-> header, plan |-> plan, country |-> country, ccy |-> ccy]

ParaKindOf(t) ==
    LET Plan(n) == ParaKindRec(FALSE, MatchParts(icloud_PLAN_RE, n) # <<>>, <<>>, <<>>)
        Header(n, mc) ==
            IF mc = <<>> THEN Plan(n)
            ELSE ParaKindRec(TRUE, FALSE, WithoutDigitsAtEnd(Strip(PartOf(n, mc, 2))),
                      Strip(PartOf(n, mc, 7)))
        Normed(n) ==
            IF n = <<>> THEN ParaKindRec(FALSE, FALSE, <<>>, <<>>)
            ELSE Header(n, MatchParts(COUNTRY_RE, n))
    IN  Normed(norm(t))

ParaKind == [t \in ParaTexts |-> ParaKindOf(t)]

HeaderAt(k) == ParaKind[paras[k]].header

PlanAt(k) == ParaKind[paras[k]].plan

\* The last header among the first n paragraphs, 0 when there is none.
NearestHeader(n) ==
    IF \A k \in 1..n : ~HeaderAt(k) THEN 0
    ELSE CHOOSE k \in 1..n : HeaderAt(k) /\ \A j \in (k + 1)..n : ~HeaderAt(j)

\* C29: the loop takes the paragraphs in order; a row it adds has the country
\* and the currency of the last header before its paragraph; before the
\* first header no row is added; a paragraph that is neither a header nor a
\* plan leaves cur_country and cur_ccy as they are.
C29_RowsFollowTheirHeader ==
    [][/\ seen' = seen + 1
       /\ plan_rows' # plan_rows =>
             /\ PlanAt(seen')
             /\ NearestHeader(seen') > 0
             /\ plan_rows' = Append(plan_rows, plan_rows'[Len(plan_rows')])
             /\ plan_rows'[Len(plan_rows')].Country = ParaKind[paras[NearestHeader(seen')]].country
             /\ plan_rows'[Len(plan_rows')].Currency = ParaKind[paras[NearestHeader(seen')]].ccy
       /\ NearestHeader(seen') = 0 => plan_rows' = <<>>
       /\ (~HeaderAt(seen') /\ ~PlanAt(seen')) =>
             UNCHANGED <<cur_country, cur_ccy>>]_vars

\* The third paragraph gave a row, after the headers of two countries.
C29_Witness ==
    /\ seen = MaxParas
    /\ Len(plan_rows) = 1
    /\ HeaderAt(1) /\ HeaderAt(2)
    /\ ParaKind[paras[1]].country # ParaKind[paras[2]].country
    /\ ParaKind[paras[1]].ccy # ParaKind[paras[2]].ccy

(***************************************************************************)
(* The progress bar of a run                                               *)
(***************************************************************************)
\* C30: while the future of the scraper is not done the bar shows at most
\* 95; it shows 100 only when the scraper has returned; and when the scraper
\* raised, the bar is put to 0, the error box is shown and the results of the
\* session are left as they were.
C30_ProgressFollowsTheFuture ==
    /\ [](ui.future = "running" => ui.progress <= 95)
    /\ [](ui.progress = 100 => ui.future = "returned")
    /\ [][(ui.pc = "result" /\ ui.future = "raised") =>
             /\ ui'.progress = 0
             /\ ui'.error
             /\ ~ui'.success
             /\ ui'.pc = "idle"
             /\ results' = results]_vars
    /\ [][results' # results => (ui.future = "returned" /\ ui.progress = 100)]_vars

\* The scraper raised after the bar had reached 95: the bar is at 0 and the
\* error box is shown.
C30_Witness ==
    /\ ui.pc = "idle"
    /\ ui.future = "raised"
    /\ ui.status = 95
    /\ ui.progress = 0
    /\ ui.error
====
